---- MODULE Spec2Model ----
(***************************************************************************)
(* CaseClerk AI backend: the Express routes over the in-memory mock        *)
(* arrays, the JWT issue/verify/refresh flow, the middleware chain of the  *)
(* server entry point and the central error handler.                       *)
(*                                                                         *)
(* Conventions.  A JSON object is a function from field names to values;   *)
(* an absent field is a name outside its DOMAIN.  Free-text fields         *)
(* (case_number, title, plaintiff, defendant, summary, search terms) are   *)
(* sequences of one-character strings, so that toLowerCase() and           *)
(* includes() are computed; enumerated fields and messages are strings.    *)
(* Date.now() is the variable now, in milliseconds.  An id, which the code *)
(* makes with Date.now().toString(), is the number whose decimal string it *)
(* is (the mock ids '1' and '2' are 1 and 2): Number -> decimal string is  *)
(* injective, so equal ids are equal numbers.  toISOString() keeps the     *)
(* millisecond and new Date(iso).getTime() gives it back, so a date is the *)
(* millisecond count it denotes.                                           *)
(***************************************************************************)
EXTENDS Integers, Sequences, FiniteSets, TLC

VARIABLES
    mockCases,   \* routes/cases: const mockCases: CaseData[]
    now,         \* Date.now(), milliseconds
    nodeEnv,     \* process.env.NODE_ENV
    req,         \* the request handled last
    resp,        \* the response sent last
    lastPost,    \* history: the case returned by the last 201 of POST /api/cases
    nWrites,     \* POST, PUT and DELETE requests handled so far (bounded)
    issued,      \* history: the tokens the auth routes have returned
    nAuth,       \* auth requests and clock jumps so far (bounded)
    store,       \* middleware/rateLimiter: const store: RateLimitStore
    nApi,        \* requests that entered the middleware chain so far (bounded)
    mockDocuments, \* routes/documents: const mockDocuments: DocumentData[], as references
    heap,        \* the DocumentData objects the references denote
    timers,      \* pending setTimeout callbacks of routes/documents, in creation order
    crashed,     \* a timer callback threw: the uncaught exception ended the process
    nDocs,       \* requests to the documents router so far (bounded)
    admitted,    \* history: key and time of every request the rate limiter let through
    nLim,        \* requests that reached the rate limiter alone so far (bounded)
    nIdle,       \* clock jumps and cleanup runs between those requests (bounded)
    uncleaned,   \* history: the store as it would be had the cleanup never run
    twin,        \* history: the rate limiter's answer to the last request on that store
    mockEvents,  \* routes/calendarEvents: const mockEvents: CalendarEventData[]
    nCal,        \* requests to the calendar events router so far (bounded)
    localStorage, \* the browser: window.localStorage, key to stored string
    location,    \* the browser: window.location.href
    call,        \* history: what the last call through the frontend apiClient did
    nClient,     \* steps of the browser so far (bounded)
    mockUserProfiles, \* routes/users: const mockUsers: UserProfile[]
    nUsers,      \* requests to the users router so far (bounded)
    mockCallLogs, \* routes/callLogs: const mockCallLogs: CallLogData[]
    callTimers,  \* pending setTimeout callbacks of routes/callLogs, in creation order
    nCalls       \* requests to the call logs router so far (bounded)

casesVars == <<mockCases, lastPost, nWrites>>
authVars == <<issued, nAuth>>
apiVars == <<store, nApi>>
docVars == <<mockDocuments, heap, timers, crashed, nDocs>>
\* the state of the sections that follow the server entry point
limVars == <<admitted, nLim, nIdle, uncleaned, twin>>
calVars == <<mockEvents, nCal>>
clientVars == <<localStorage, location, call, nClient>>
userVars == <<mockUserProfiles, nUsers>>
callVars == <<mockCallLogs, callTimers, nCalls>>
extVars == <<docVars, limVars, calVars, clientVars, userVars, callVars>>
\* what the documents router, the rate limiter and the calendar router leave alone
beyondDocs == <<casesVars, authVars, apiVars, limVars, calVars, clientVars, userVars,
                callVars>>
beyondLimiter == <<casesVars, authVars, docVars, calVars, clientVars, userVars, callVars>>
beyondCalendar == <<casesVars, authVars, apiVars, docVars, limVars, clientVars, userVars,
                    callVars>>
\* what the browser leaves alone: the server's arrays, stores and counters
beyondClient == <<nodeEnv, casesVars, nAuth, apiVars, docVars, limVars, calVars, userVars,
                  callVars>>
\* what the users router and the call logs router leave alone
beyondUsers == <<casesVars, authVars, apiVars, docVars, limVars, calVars, clientVars,
                 callVars>>
beyondCalls == <<casesVars, authVars, apiVars, docVars, limVars, calVars, clientVars,
                 userVars>>
vars == <<mockCases, now, nodeEnv, req, resp, lastPost, nWrites, issued, nAuth, store, nApi,
          extVars>>

(***************************************************************************)
(* Bounds of the model.                                                    *)
(***************************************************************************)
StartMs == 10      \* Date.now() when the server starts
MaxTicks == 1      \* milliseconds that pass during a run of the cases API
MaxWrites == 2     \* POST/PUT/DELETE requests in a run of the cases API
MaxAuth == 3       \* token-issuing requests and clock jumps in a run of the auth API
MaxApi == 4        \* requests and clock jumps in a run of the whole middleware chain
MaxDocs == 3       \* requests and idle seconds in a run of the documents router
MaxLim == 8        \* requests in a run of the rate limiter
MaxIdle == 3       \* clock jumps and cleanup runs in a run of the rate limiter
MaxCal == 3        \* requests in a run of the calendar events router

(***************************************************************************)
(* JavaScript helpers.                                                     *)
(***************************************************************************)
Has(o, k) == k \in DOMAIN o

\* { ...a, ...b }
Spread(a, b) ==
    [k \in (DOMAIN a) \cup (DOMAIN b) |-> IF k \in DOMAIN b THEN b[k] ELSE a[k]]

\* !!o.k for a text field: absent (undefined) and '' are falsy
TruthyText(o, k) == Has(o, k) /\ o[k] # <<>>

\* !!o.k for an enumerated (string) field
TruthyStr(o, k) == Has(o, k) /\ o[k] # ""

LowerChar(ch) ==
    CASE ch = "A" -> "a"
      [] ch = "B" -> "b"
      [] ch = "C" -> "c"
      [] ch = "V" -> "v"
      [] ch = "S" -> "s"
      [] OTHER -> ch

\* String.prototype.toLowerCase
ToLowerCase(s) == [i \in 1..Len(s) |-> LowerChar(s[i])]

\* String.prototype.includes
Includes(s, t) ==
    \E i \in 1..(Len(s) + 1) :
        /\ i + Len(t) - 1 <= Len(s)
        /\ SubSeq(s, i, i + Len(t) - 1) = t

Digits == <<"0", "1", "2", "3", "4", "5", "6", "7", "8", "9">>
IsDigit(ch) == \E d \in 1..10 : Digits[d] = ch
DigitVal(ch) == (CHOOSE d \in 1..10 : Digits[d] = ch) - 1

RECURSIVE DigitPrefix(_, _)
\* value of the longest prefix of digits of s, continuing from acc
DigitPrefix(s, acc) ==
    IF s = <<>> \/ ~IsDigit(Head(s)) THEN acc
    ELSE DigitPrefix(Tail(s), 10 * acc + DigitVal(Head(s)))

\* parseInt(s): [nan |-> TRUE] or [nan |-> FALSE, val |-> n]
ParseInt(s) ==
    LET neg  == s # <<>> /\ Head(s) = "-"
        body == IF s # <<>> /\ Head(s) \in {"-", "+"} THEN Tail(s) ELSE s
    IN  IF body = <<>> \/ ~IsDigit(Head(body)) THEN [nan |-> TRUE, val |-> 0]
        ELSE [nan |-> FALSE,
              val |-> IF neg THEN 0 - DigitPrefix(body, 0) ELSE DigitPrefix(body, 0)]

\* Array.prototype.slice(0, end), end the result of parseInt
SliceTo(arr, end) ==
    LET e == IF end.nan THEN 0
             ELSE IF end.val < 0 THEN (IF Len(arr) + end.val < 0 THEN 0 ELSE Len(arr) + end.val)
             ELSE IF end.val > Len(arr) THEN Len(arr) ELSE end.val
    IN  SubSeq(arr, 1, e)

\* Array.prototype.filter is SelectSeq.
\* arr.findIndex(c => c.id === id), 1-based; 0 stands for -1
FindIndexById(arr, id) ==
    IF \E i \in 1..Len(arr) : Has(arr[i], "id") /\ arr[i].id = id
    THEN CHOOSE i \in 1..Len(arr) :
            /\ Has(arr[i], "id") /\ arr[i].id = id
            /\ \A j \in 1..(i - 1) : ~(Has(arr[j], "id") /\ arr[j].id = id)
    ELSE 0

\* Array.prototype.splice(i, 1)
RemoveAt(arr, i) == SubSeq(arr, 1, i - 1) \o SubSeq(arr, i + 1, Len(arr))

Range(arr) == {arr[i] : i \in 1..Len(arr)}

(***************************************************************************)
(* Module state of the other routers after load.                           *)
(***************************************************************************)
\* routes/documents: the one mock document; texts are abbreviated
InitialDocument ==
    [id |-> 1, case_id |-> 1, original_name |-> "contract_agreement.pdf",
     file_name |-> "doc-1234567890-contract_agreement.pdf",
     file_size |-> 2048576, mime_type |-> "application/pdf",
     document_type |-> "other", status |-> "completed",
     ai_summary |-> "Software development contract",
     extracted_text |-> "This agreement is entered into",
     tags |-> <<"contract", "software", "development">>,
     created_date |-> 1, updated_date |-> 2, user_id |-> 1]

\* a date-time string: an ISO string denoting a millisecond, '' or unparseable text
Iso(n) == [text |-> "iso", ms |-> n]
EmptyTime == [text |-> "", ms |-> 0]
GarbageTime == [text |-> "soon", ms |-> 0]

\* routes/calendarEvents: the two mock events; 10:00-11:00 and 14:00-15:00 of two
\* days become small millisecond counts
InitialEvents ==
    << [id |-> 1, case_id |-> 1, title |-> "Court Hearing",
        start_time |-> Iso(500), end_time |-> Iso(600), status |-> "scheduled",
        created_date |-> 2, updated_date |-> 2, user_id |-> 1],
       [id |-> 2, case_id |-> 2, title |-> "Client Consultation",
        start_time |-> Iso(200), end_time |-> Iso(300), status |-> "confirmed",
        created_date |-> 1, updated_date |-> 3, user_id |-> 1] >>

\* routes/users: mockUsers; the profile fields no route of the router reads are
\* left out ('sk-demo-key' is the stored openai key)
InitialProfiles ==
    << [id |-> 1, full_name |-> "Demo User", email |-> <<"d", "@", "c", ".", "a">>,
        license_level |-> "attorney",
        api_keys |-> [openai |-> <<"s", "k", "-", "d", "e", "m", "o", "-", "k", "e", "y">>,
                      anthropic |-> <<>>, vonage |-> <<>>, elevenlabs |-> <<>>],
        onboarding_completed |-> TRUE, created_date |-> 1, updated_date |-> 2] >>

\* routes/callLogs: mockCallLogs; transcript, summary, participants and ai_insights,
\* which no modelled route reads, are left out
InitialCallLogs ==
    << [id |-> 1, case_id |-> 1, to_number |-> "+15551234567",
        from_number |-> "+15559876543", started_at |-> Iso(3), ended_at |-> Iso(4),
        duration |-> [nan |-> FALSE, val |-> 900], call_status |-> "completed",
        call_purpose |-> "client_consultation", notes |-> "Client mentioned new witness",
        created_date |-> 3, updated_date |-> 4, user_id |-> 1],
       [id |-> 2, case_id |-> 2, to_number |-> "+15555551234",
        from_number |-> "+15559876543", started_at |-> Iso(1), ended_at |-> Iso(2),
        duration |-> [nan |-> FALSE, val |-> 900], call_status |-> "completed",
        call_purpose |-> "client_consultation", notes |-> "Initial consultation",
        created_date |-> 1, updated_date |-> 2, user_id |-> 1] >>

InitExt ==
    /\ heap = <<InitialDocument>>
    /\ mockDocuments = <<1>>
    /\ timers = <<>>
    /\ crashed = FALSE
    /\ nDocs = 0
    /\ admitted = <<>>
    /\ uncleaned = <<>>
    /\ twin = [status |-> 0, by |-> "none", sent |-> 0, body |-> <<>>]
    /\ nLim = 0
    /\ nIdle = 0
    /\ mockEvents = InitialEvents
    /\ nCal = 0
    /\ localStorage = <<>>
    /\ location = "/"
    /\ call = [kind |-> "none"]
    /\ nClient = 0
    /\ mockUserProfiles = InitialProfiles
    /\ nUsers = 0
    /\ mockCallLogs = InitialCallLogs
    /\ callTimers = <<>>
    /\ nCalls = 0

(***************************************************************************)
(* middleware/errorHandler.ts                                              *)
(***************************************************************************)
NodeEnvs == {"production", "development", "test"}

\* ApiError.code is string | number
CodeStr(s) == [type |-> "string", str |-> s, num |-> 0]
CodeNum(n) == [type |-> "number", str |-> "", num |-> n]
CodeTruthy(c) == IF c.type = "number" THEN c.num # 0 ELSE c.str # ""

\* createError(message, statusCode = 500, code?, details?)
createError(message, statusCode, code) ==
    LET base == [name |-> "Error", message |-> message, statusCode |-> statusCode]
    IN  IF code # "" THEN Spread(base, [code |-> CodeStr(code)]) ELSE base

\* a plausible slip: the duplicate-key test without typeof, JWT expiry unmapped
ErrorStatusLoose(error) ==
    CASE error.name = "ValidationError" -> 400
      [] error.name = "CastError" -> 400
      [] error.name = "MongoError" /\ Has(error, "code")
            /\ (error.code.num = 11000 \/ error.code.str = "11000") -> 409
      [] error.name = "JsonWebTokenError" -> 401
      [] OTHER -> IF Has(error, "statusCode") /\ error.statusCode # 0
                  THEN error.statusCode ELSE 500

\* statusCode, code and message the handler settles on
ErrorStatus(error) ==
    CASE error.name = "ValidationError" -> 400
      [] error.name = "CastError" -> 400
      [] error.name = "MongoError" /\ Has(error, "code") /\ error.code.type = "number"
            /\ error.code.num = 11000 -> 409
      [] error.name = "JsonWebTokenError" -> 401
      [] error.name = "TokenExpiredError" -> 401
      [] OTHER -> IF Has(error, "statusCode") /\ error.statusCode # 0
                  THEN error.statusCode ELSE 500

ErrorCode(error) ==
    CASE error.name = "ValidationError" -> CodeStr("VALIDATION_ERROR")
      [] error.name = "CastError" -> CodeStr("INVALID_ID")
      [] error.name = "MongoError" /\ Has(error, "code") /\ error.code.type = "number"
            /\ error.code.num = 11000 -> CodeStr("DUPLICATE_ENTRY")
      [] error.name = "JsonWebTokenError" -> CodeStr("INVALID_TOKEN")
      [] error.name = "TokenExpiredError" -> CodeStr("TOKEN_EXPIRED")
      [] OTHER -> IF Has(error, "code") /\ CodeTruthy(error.code)
                  THEN error.code ELSE CodeStr("INTERNAL_ERROR")

ErrorMessage(error, env) ==
    LET m == CASE error.name = "ValidationError" -> "Validation error"
               [] error.name = "CastError" -> "Invalid ID format"
               [] error.name = "MongoError" /\ Has(error, "code")
                     /\ error.code.type = "number" /\ error.code.num = 11000
                     -> "Duplicate entry"
               [] error.name = "JsonWebTokenError" -> "Invalid token"
               [] error.name = "TokenExpiredError" -> "Token expired"
               [] OTHER -> IF error.message # "" THEN error.message
                           ELSE "Internal server error"
    IN  IF env = "production" /\ ErrorStatus(error) = 500
        THEN "Internal server error" ELSE m

\* errorHandler(error, req, res, next): the one res.status().json() it makes
errorHandler(error, env) ==
    [status |-> ErrorStatus(error),
     by     |-> "errorHandler",
     sent   |-> 1,
     body   |-> [success |-> FALSE,
                 error   |-> Spread([code |-> ErrorCode(error),
                                     message |-> ErrorMessage(error, env)],
                                    IF env = "development"
                                    THEN [stack |-> "stack", details |-> "details"]
                                    ELSE <<>>),
                 timestamp |-> now,
                 path |-> "url"]]

NoResponse == [status |-> 0, by |-> "none", sent |-> 0, body |-> <<>>]

\* res.status(s).json(body) of a route handler
Reply(s, body) == [status |-> s, by |-> "handler", sent |-> 1, body |-> body]

(***************************************************************************)
(* routes/cases                                                            *)
(***************************************************************************)
\* '2024-CV-001234', '2024-CR-005678' and the other texts, abbreviated
CaseNo1 == <<"C", "V">>
CaseNo2 == <<"C", "R">>
CaseNo3 == <<"c", "v", "3">>
Title1 == <<"S", "v", "J">>
Title2 == <<"S", "v", "W">>
Title3 == <<"B">>

InitialCases ==
    << [id |-> 1, case_number |-> CaseNo1, title |-> Title1,
        plaintiff |-> <<"J", "S">>, status |-> "active", case_type |-> "civil",
        priority |-> "medium", created_date |-> 2, updated_date |-> 4,
        user_id |-> 1],
       [id |-> 2, case_number |-> CaseNo2, title |-> Title2,
        defendant |-> <<"R", "W">>, status |-> "pending", case_type |-> "criminal",
        priority |-> "high", created_date |-> 1, updated_date |-> 3,
        user_id |-> 1] >>

IndexOfId(id) == FindIndexById(mockCases, id)

\* query.k of a string parameter, '' when absent
Param(q, k) == IF Has(q, k) THEN q[k] ELSE ""

\* cases.sort by updated_date (Array.prototype.sort is stable); desc for '-updated_date'
RECURSIVE InsertSorted(_, _, _)
InsertSorted(sorted, x, desc) ==
    IF sorted = <<>> THEN <<x>>
    ELSE IF (IF desc THEN Head(sorted).updated_date < x.updated_date
                     ELSE Head(sorted).updated_date > x.updated_date)
         THEN <<x>> \o sorted
         ELSE <<Head(sorted)>> \o InsertSorted(Tail(sorted), x, desc)

RECURSIVE SortByUpdated(_, _)
SortByUpdated(arr, desc) ==
    IF arr = <<>> THEN <<>>
    ELSE InsertSorted(SortByUpdated(SubSeq(arr, 1, Len(arr) - 1), desc),
                      arr[Len(arr)], desc)

TextMatches(c, fields, term) ==
    \E f \in fields : Has(c, f) /\ Includes(ToLowerCase(c[f]), term)

\* a plausible slip: 'all' is not exempted and cases without a status pass
StatusFilterLoose(cases, status) ==
    IF status # ""
    THEN SelectSeq(cases, LAMBDA c : ~Has(c, "status") \/ c.status = status \/ c.status = "")
    ELSE cases

\* the status filter of GET /api/cases
StatusFilter(cases, status) ==
    IF status # "" /\ status # "all"
    THEN SelectSeq(cases, LAMBDA c : Has(c, "status") /\ c.status = status)
    ELSE cases

\* GET /api/cases: the array it returns
ListResult(q) ==
    LET sort == IF Has(q, "sort") THEN q.sort ELSE "-updated_date"
        f1 == StatusFilter(mockCases, Param(q, "status"))
        f2 == IF Param(q, "case_type") # "" /\ q.case_type # "all"
              THEN SelectSeq(f1, LAMBDA c : Has(c, "case_type") /\ c.case_type = q.case_type)
              ELSE f1
        f3 == IF Param(q, "priority") # "" /\ q.priority # "all"
              THEN SelectSeq(f2, LAMBDA c : Has(c, "priority") /\ c.priority = q.priority)
              ELSE f2
        f4 == IF TruthyText(q, "search")
              THEN SelectSeq(f3, LAMBDA c :
                      TextMatches(c, {"case_number", "title", "plaintiff", "defendant"},
                                  ToLowerCase(q.search)))
              ELSE f3
        f5 == IF sort = "-updated_date" THEN SortByUpdated(f4, TRUE)
              ELSE IF sort = "updated_date" THEN SortByUpdated(f4, FALSE)
              ELSE f4
    IN  IF TruthyText(q, "limit") THEN SliceTo(f5, ParseInt(q.limit)) ELSE f5

\* GET /api/cases: the response
ListReply(q) ==
    Reply(200, [success |-> TRUE, data |-> ListResult(q), total |-> Len(ListResult(q))])

ListCases(q) ==
    /\ req' = [kind |-> "LIST", query |-> q]
    /\ resp' = ListReply(q)
    /\ UNCHANGED <<mockCases, now, nodeEnv, lastPost, nWrites, authVars, apiVars, extVars>>

\* GET /api/cases/:id: the response
GetReply(id) ==
    IF IndexOfId(id) = 0
    THEN errorHandler(createError("Case not found", 404, "CASE_NOT_FOUND"), nodeEnv)
    ELSE Reply(200, [success |-> TRUE, data |-> mockCases[IndexOfId(id)]])

GetCase(id) ==
    /\ req' = [kind |-> "GET", id |-> id]
    /\ resp' = GetReply(id)
    /\ UNCHANGED <<mockCases, now, nodeEnv, lastPost, nWrites, authVars, apiVars, extVars>>

\* GET /api/cases/search: the response
SearchReply(q) ==
    IF ~TruthyText(q, "q")
    THEN errorHandler(createError("Search query required", 400, "MISSING_QUERY"), nodeEnv)
    ELSE LET results == SelectSeq(mockCases, LAMBDA c :
                            TextMatches(c, {"case_number", "title", "plaintiff",
                                            "defendant", "summary"}, ToLowerCase(q.q)))
         IN  Reply(200, [success |-> TRUE, data |-> results, total |-> Len(results),
                         query |-> q.q])

\* mockCases.filter(c => c[field] === value).length
CountWhere(field, value) ==
    Cardinality({i \in 1..Len(mockCases) :
                    Has(mockCases[i], field) /\ mockCases[i][field] = value})

\* GET /api/cases/stats: the response
StatsReply ==
    Reply(200,
      [success |-> TRUE,
       data |-> [total |-> Len(mockCases),
                 active |-> CountWhere("status", "active"),
                 pending |-> CountWhere("status", "pending"),
                 closed |-> CountWhere("status", "closed"),
                 urgent |-> CountWhere("priority", "urgent"),
                 by_type |-> [t \in {"civil", "criminal", "family", "probate",
                                     "bankruptcy", "administrative"}
                                 |-> CountWhere("case_type", t)]]])

\* the GET routes of the cases router, in the order router.get registers them
CasesGetRoutes == <<"/", "/:id", "/search", "/stats">>

\* a path segment is [digits |-> n], the decimal string of n, or [word |-> w]
RouteMatches(pattern, rest) ==
    CASE pattern = "/" -> rest = <<>>
      [] pattern = "/:id" -> Len(rest) = 1
      [] pattern = "/search" -> rest = <<[word |-> "search"]>>
      [] pattern = "/stats" -> rest = <<[word |-> "stats"]>>

\* the first registered route that matches, 0 when none does
FirstRoute(rest) ==
    IF \E i \in 1..Len(CasesGetRoutes) : RouteMatches(CasesGetRoutes[i], rest)
    THEN CHOOSE i \in 1..Len(CasesGetRoutes) :
            /\ RouteMatches(CasesGetRoutes[i], rest)
            /\ \A j \in 1..(i - 1) : ~RouteMatches(CasesGetRoutes[j], rest)
    ELSE 0

\* GET /api/cases/:id with req.params.id = the segment; ids are decimal strings
GetReplyOfSegment(seg) ==
    IF Has(seg, "digits") THEN GetReply(seg.digits)
    ELSE errorHandler(createError("Case not found", 404, "CASE_NOT_FOUND"), nodeEnv)

\* a GET below /api/cases goes to the first matching route; its handler answers
\* or throws, so no later route sees the request
RouteGet(rest, q) ==
    /\ FirstRoute(rest) # 0
    /\ req' = [kind |-> "ROUTE", rest |-> rest, query |-> q]
    /\ LET route == CasesGetRoutes[FirstRoute(rest)]
       IN  resp' = Spread(CASE route = "/" -> ListReply(q)
                            [] route = "/:id" -> GetReplyOfSegment(rest[1])
                            [] route = "/search" -> SearchReply(q)
                            [] route = "/stats" -> StatsReply,
                          [route |-> route])
    /\ UNCHANGED <<mockCases, now, nodeEnv, lastPost, nWrites, authVars, apiVars, extVars>>

\* the validation of POST /api/cases
MissingRequired(caseData) ==
    ~TruthyText(caseData, "case_number") \/ ~TruthyText(caseData, "title")

\* a plausible slip: the duplicate check compares titles
ExistingCaseByTitle(caseData) ==
    \E i \in 1..Len(mockCases) : mockCases[i].title = caseData.title

ExistingCase(caseData) ==
    \E i \in 1..Len(mockCases) : mockCases[i].case_number = caseData.case_number

\* req.user?.id || '1'; user is req.user, <<>> when undefined
UserIdOf(user) == IF Has(user, "id") THEN user.id ELSE 1

NewCase(caseData, user) ==
    Spread(caseData, [id |-> now, created_date |-> now, updated_date |-> now,
                      user_id |-> UserIdOf(user)])

\* POST /api/cases: the response and the array it leaves
PostOutcome(caseData, user) ==
    IF MissingRequired(caseData)
    THEN [resp |-> errorHandler(createError("Case number and title are required",
                                            400, "MISSING_REQUIRED_FIELDS"), nodeEnv),
          cases |-> mockCases]
    ELSE IF ExistingCase(caseData)
    THEN [resp |-> errorHandler(createError("Case number already exists",
                                            409, "DUPLICATE_CASE_NUMBER"), nodeEnv),
          cases |-> mockCases]
    ELSE [resp |-> Reply(201, [success |-> TRUE, data |-> NewCase(caseData, user),
                               message |-> "Case created successfully"]),
          cases |-> Append(mockCases, NewCase(caseData, user))]

PostCase(caseData, user) ==
    /\ nWrites < MaxWrites
    /\ nWrites' = nWrites + 1
    /\ req' = [kind |-> "POST", body |-> caseData, user |-> user]
    /\ resp' = PostOutcome(caseData, user).resp
    /\ mockCases' = PostOutcome(caseData, user).cases
    /\ lastPost' = IF PostOutcome(caseData, user).resp.status = 201
                   THEN <<NewCase(caseData, user)>> ELSE lastPost
    /\ UNCHANGED <<now, nodeEnv, authVars, apiVars, extVars>>

\* { ...mockCases[caseIndex], ...updates, updated_date: new Date().toISOString() }
UpdatedCase(old, updates) == Spread(Spread(old, updates), [updated_date |-> now])

\* a PUT or DELETE of /api/cases/:id ends the history of the case POST returned under that id
ForgetPost(id) == IF lastPost # <<>> /\ lastPost[1].id = id THEN <<>> ELSE lastPost

\* PUT /api/cases/:id: the response and the array it leaves
PutOutcome(id, updates) ==
    IF IndexOfId(id) = 0
    THEN [resp |-> errorHandler(createError("Case not found", 404, "CASE_NOT_FOUND"), nodeEnv),
          cases |-> mockCases]
    ELSE [resp |-> Reply(200, [success |-> TRUE,
                               data |-> UpdatedCase(mockCases[IndexOfId(id)], updates),
                               message |-> "Case updated successfully"]),
          cases |-> [mockCases EXCEPT
                        ![IndexOfId(id)] = UpdatedCase(mockCases[IndexOfId(id)], updates)]]

PutCase(id, updates) ==
    /\ nWrites < MaxWrites
    /\ nWrites' = nWrites + 1
    /\ req' = [kind |-> "PUT", id |-> id, body |-> updates]
    /\ lastPost' = ForgetPost(id)
    /\ resp' = PutOutcome(id, updates).resp
    /\ mockCases' = PutOutcome(id, updates).cases
    /\ UNCHANGED <<now, nodeEnv, authVars, apiVars, extVars>>

\* DELETE /api/cases/:id: the response and the array it leaves
DeleteOutcome(id) ==
    IF IndexOfId(id) = 0
    THEN [resp |-> errorHandler(createError("Case not found", 404, "CASE_NOT_FOUND"), nodeEnv),
          cases |-> mockCases]
    ELSE [resp |-> Reply(200, [success |-> TRUE, message |-> "Case deleted successfully"]),
          cases |-> RemoveAt(mockCases, IndexOfId(id))]

DeleteCase(id) ==
    /\ nWrites < MaxWrites
    /\ nWrites' = nWrites + 1
    /\ req' = [kind |-> "DELETE", id |-> id]
    /\ lastPost' = ForgetPost(id)
    /\ resp' = DeleteOutcome(id).resp
    /\ mockCases' = DeleteOutcome(id).cases
    /\ UNCHANGED <<now, nodeEnv, authVars, apiVars, extVars>>

\* a millisecond passes
Tick ==
    /\ now < StartMs + MaxTicks
    /\ now' = now + 1
    /\ UNCHANGED <<mockCases, nodeEnv, req, resp, lastPost, nWrites, authVars, apiVars, extVars>>

(***************************************************************************)
(* The requests the clients of the cases API send.                         *)
(***************************************************************************)
PostRequests ==
    { [body |-> [case_number |-> CaseNo3, title |-> Title3, status |-> "active"],
       user |-> [id |-> 7]],
      [body |-> [case_number |-> <<"B">>, title |-> Title3,
                 case_type |-> "civil", priority |-> "high"], user |-> <<>>],
      [body |-> [case_number |-> CaseNo1, title |-> Title3, status |-> "active"],
       user |-> [id |-> 7]],
      [body |-> [case_number |-> CaseNo1, title |-> <<>>], user |-> [id |-> 7]],
      [body |-> [case_number |-> <<"B">>], user |-> [id |-> 7]],
      [body |-> [title |-> Title3, status |-> "active"], user |-> [id |-> 7]] }

PutBodies ==
    { [title |-> <<>>],
      [case_number |-> CaseNo2],
      [status |-> "closed", priority |-> "urgent"],
      [status |-> ""],
      [status |-> "closed", user_id |-> 9, created_date |-> 0] }

Queries ==
    { <<>>,
      [status |-> "active"],
      [status |-> "pending", sort |-> "updated_date"],
      [status |-> "all"],
      [status |-> ""],
      [status |-> "active", limit |-> <<"1">>],
      [limit |-> <<"x">>, sort |-> "title"],
      [status |-> "closed", limit |-> <<"-", "1">>],
      [status |-> "active", case_type |-> "criminal"],
      [status |-> "pending", priority |-> "all", search |-> <<"C", "r">>] }

Ids == {1, 2, StartMs}

\* paths below /api/cases and query strings of GET requests
RoutePaths ==
    { <<>>, <<[digits |-> 1]>>, <<[word |-> "search"]>>, <<[word |-> "stats"]>> }

RouteQueries == { <<>>, [q |-> <<"s", "V">>] }

InitCases ==
    /\ mockCases = InitialCases
    /\ now = StartMs
    /\ nodeEnv = "production"
    /\ req = [kind |-> "none"]
    /\ resp = NoResponse
    /\ lastPost = <<>>
    /\ nWrites = 0
    /\ issued = {}
    /\ nAuth = 0
    /\ store = <<>>
    /\ nApi = 0
    /\ InitExt

NextCases ==
    \/ Tick
    \/ \E r \in PostRequests : PostCase(r.body, r.user)
    \/ \E id \in Ids, b \in PutBodies : PutCase(id, b)
    \/ \E id \in Ids : DeleteCase(id)
    \/ \E id \in Ids : GetCase(id)
    \/ \E q \in Queries : ListCases(q)
    \/ \E rest \in RoutePaths, q \in RouteQueries : RouteGet(rest, q)

SpecCases == InitCases /\ [][NextCases]_vars

(***************************************************************************)
(* Claims about the cases API, checked under SpecCases.                    *)
(***************************************************************************)
\* a request of the given kind was handled in this step
Handled(kind) == nWrites' # nWrites /\ req'.kind = kind

\* C1: in every state reachable by POST, PUT and DELETE of /api/cases, no two
\* stored cases have the same case_number.
C1_UniqueCaseNumbers ==
    \A i, j \in 1..Len(mockCases) :
        i # j => mockCases[i].case_number # mockCases[j].case_number

\* C3: after a POST /api/cases answered 201, a GET /api/cases/:id with the id it
\* returned (no PUT or DELETE of that id in between) returns a case with the
\* case_number and title of the POST body.
C3_PostThenGet ==
    (req.kind = "GET" /\ lastPost # <<>> /\ req.id = lastPost[1].id)
        => /\ resp.status = 200
           /\ resp.body.data.case_number = lastPost[1].case_number
           /\ resp.body.data.title = lastPost[1].title

\* C4: a POST /api/cases with a missing (absent or empty) case_number or title is
\* answered 400 and one that passes that check with the case_number of a stored
\* case is answered 409 with code DUPLICATE_CASE_NUMBER; both leave the stored
\* cases unchanged.
C4_PostRejections ==
    [][Handled("POST") =>
        LET b == req'.body
            missing == \/ ~Has(b, "case_number") \/ b.case_number = <<>>
                       \/ ~Has(b, "title") \/ b.title = <<>>
            dup == Has(b, "case_number")
                   /\ \E c \in Range(mockCases) : c.case_number = b.case_number
        IN  /\ missing => resp'.status = 400 /\ mockCases' = mockCases
            /\ (~missing /\ dup) =>
                   /\ resp'.status = 409
                   /\ resp'.body.error.code = CodeStr("DUPLICATE_CASE_NUMBER")
                   /\ mockCases' = mockCases
            /\ (~missing /\ ~dup) => resp'.status = 201]_vars

C4_Witness ==
    /\ req.kind = "POST"
    /\ resp.status = 409
    /\ resp.body.error.code = CodeStr("DUPLICATE_CASE_NUMBER")
    /\ \E c \in Range(mockCases) : c.case_number = req.body.case_number
    /\ Len(mockCases) > 2

\* C5: in every reachable state every stored case has a non-empty case_number and
\* a non-empty title.
C5_RequiredFieldsPresent ==
    \A i \in 1..Len(mockCases) :
        /\ Has(mockCases[i], "case_number") /\ mockCases[i].case_number # <<>>
        /\ Has(mockCases[i], "title") /\ mockCases[i].title # <<>>

C15_SearchAndStatsRoutes ==
    (req.kind = "ROUTE" /\ Len(req.rest) = 1 /\ Has(req.rest[1], "word"))
        => /\ resp.route # "/:id"
           /\ req.rest[1].word = "search"
                => /\ resp.route = "/search"
                   /\ (~Has(req.query, "q") \/ req.query.q = <<>>) => resp.status = 400
                   /\ (Has(req.query, "q") /\ req.query.q # <<>>)
                        => /\ resp.status = 200
                           /\ resp.body.data =
                                SelectSeq(mockCases, LAMBDA c :
                                    \E f \in {"case_number", "title", "plaintiff",
                                              "defendant", "summary"} :
                                        /\ f \in DOMAIN c
                                        /\ Includes(ToLowerCase(c[f]),
                                                    ToLowerCase(req.query.q)))
           /\ req.rest[1].word = "stats"
                => /\ resp.route = "/stats"
                   /\ resp.status = 200
                   /\ resp.body.data.total = Len(mockCases)

\* C18: PUT /:id leaves the id, created_date and user_id of the stored record as
\* they were, whatever the body contains; it changes only updated_date and the
\* other fields the body supplies, and it changes no other record.
C18_PutFrame ==
    [][ (Handled("PUT") /\ resp'.status = 200)
            => \E k \in 1..Len(mockCases) :
                  /\ mockCases[k].id = req'.id
                  /\ Len(mockCases') = Len(mockCases)
                  /\ \A j \in 1..Len(mockCases) : j # k => mockCases'[j] = mockCases[j]
                  /\ mockCases'[k].id = mockCases[k].id
                  /\ mockCases'[k].created_date = mockCases[k].created_date
                  /\ mockCases'[k].user_id = mockCases[k].user_id
                  /\ \A f \in DOMAIN mockCases[k] :
                        (f \notin DOMAIN req'.body /\ f # "updated_date")
                            => /\ f \in DOMAIN mockCases'[k]
                               /\ mockCases'[k][f] = mockCases[k][f] ]_vars

(***************************************************************************)
(* The error handler on its own: every error that can be passed to it.     *)
(***************************************************************************)
ErrorNames ==
    {"Error", "ValidationError", "CastError", "MongoError", "JsonWebTokenError",
     "TokenExpiredError", "TypeError", "MulterError"}

\* error.statusCode: absent, or an HTTP error status
StatusCodes == {400, 401, 403, 404, 409, 413, 429, 500, 503}

ErrorCodes ==
    {CodeNum(11000), CodeNum(11001), CodeStr("11000"), CodeStr("LIMIT_FILE_SIZE"),
     CodeStr("")}

ThrownErrors ==
    LET named == [name : ErrorNames, message : {"", "boom"}]
        withStatus == named \cup
            {Spread(e, [statusCode |-> sc]) : e \in named, sc \in StatusCodes}
    IN  withStatus \cup {Spread(e, [code |-> c]) : e \in withStatus, c \in ErrorCodes}

InitErr ==
    /\ mockCases = InitialCases
    /\ now = StartMs
    /\ nodeEnv \in NodeEnvs
    /\ req \in {[kind |-> "THROWN", error |-> e] : e \in ThrownErrors}
    /\ resp = NoResponse
    /\ lastPost = <<>>
    /\ nWrites = 0
    /\ issued = {}
    /\ nAuth = 0
    /\ store = <<>>
    /\ nApi = 0
    /\ InitExt

\* next(error) reaches app.use(errorHandler)
HandleError ==
    /\ req.kind = "THROWN"
    /\ req' = [req EXCEPT !.kind = "ERROR"]
    /\ resp' = [errorHandler(req.error, nodeEnv) EXCEPT !.sent = resp.sent + 1]
    /\ UNCHANGED <<now, nodeEnv, casesVars, authVars, apiVars, extVars>>

NextErr == HandleError

SpecErr == InitErr /\ [][NextErr]_vars

\* C10: errorHandler answers ValidationError and CastError with 400, MongoError
\* with numeric code 11000 with 409, JsonWebTokenError and TokenExpiredError with
\* 401; any other error with its statusCode when it has one and with 500
\* otherwise; one response per error.
C10_ErrorMapping ==
    req.kind = "ERROR" =>
        LET e == req.error
            mongoDup == /\ e.name = "MongoError" /\ Has(e, "code")
                        /\ e.code.type = "number" /\ e.code.num = 11000
        IN  /\ e.name \in {"ValidationError", "CastError"} => resp.status = 400
            /\ mongoDup => resp.status = 409
            /\ e.name \in {"JsonWebTokenError", "TokenExpiredError"} => resp.status = 401
            /\ ( /\ e.name \notin {"ValidationError", "CastError", "JsonWebTokenError",
                                  "TokenExpiredError"}
                 /\ ~mongoDup )
                  => resp.status = (IF Has(e, "statusCode") THEN e.statusCode ELSE 500)
            /\ resp.sent = 1
            /\ resp.by = "errorHandler"

C10_Witness ==
    /\ req.kind = "ERROR"
    /\ req.error.name = "MongoError"
    /\ Has(req.error, "code") /\ req.error.code = CodeNum(11000)
    /\ Has(req.error, "statusCode") /\ req.error.statusCode = 500
    /\ resp.status = 409

(***************************************************************************)
(* middleware/auth: jsonwebtoken.  A token is the record of its payload,   *)
(* the key that signed it and whether it parses as a JWT at all.           *)
(***************************************************************************)
JWT_SECRET == "your-secret-key-change-in-production"
AccessTtlSec == 24 * 60 * 60          \* expiresIn: '24h'
RefreshTtlSec == 7 * 24 * 60 * 60     \* expiresIn: '7d'

\* Math.floor(Date.now() / 1000)
NowSec == now \div 1000

\* jwt.sign(payload, JWT_SECRET, { expiresIn })
jwtSign(payload, ttlSec) ==
    Spread(payload, [iat |-> NowSec, exp |-> NowSec + ttlSec, key |-> JWT_SECRET,
                     wellFormed |-> TRUE])

\* jwt.verify(token, JWT_SECRET): the payload, or the error it throws
jwtVerify(token) ==
    IF ~token.wellFormed THEN [ok |-> FALSE, error |-> "JsonWebTokenError"]
    ELSE IF token.key # JWT_SECRET THEN [ok |-> FALSE, error |-> "JsonWebTokenError"]
    ELSE IF NowSec >= token.exp THEN [ok |-> FALSE, error |-> "TokenExpiredError"]
    ELSE [ok |-> TRUE, error |-> ""]

generateToken(payload) == jwtSign(payload, AccessTtlSec)

generateRefreshToken(payload) == jwtSign(payload, RefreshTtlSec)

\* a plausible slip: the expiry is not checked
verifyRefreshTokenIgnoringExpiry(token) ==
    IF token.wellFormed /\ token.key = JWT_SECRET
    THEN [ok |-> TRUE, id |-> token.id, email |-> token.email]
    ELSE [ok |-> FALSE]

\* verifyRefreshToken(token): { id, email } or null
verifyRefreshToken(token) ==
    IF jwtVerify(token).ok
    THEN [ok |-> TRUE, id |-> token.id, email |-> token.email]
    ELSE [ok |-> FALSE]

(***************************************************************************)
(* routes/auth                                                             *)
(***************************************************************************)
\* 'demo@caseclerk.ai' and 'demo123', abbreviated
DemoEmail == <<"d", "@", "c", ".", "a">>
DemoPassword == <<"d", "e", "m", "o", "1", "2", "3">>

\* bcrypt.hash(password, 10)
bcryptHash(password) == [bcrypt |-> password]

\* a plausible slip: the password is not compared
bcryptCompareAny(password, hash) == TRUE

\* bcrypt.compare(password, hash)
bcryptCompare(password, hash) == hash.bcrypt = password

mockUsers ==
    << [id |-> 1, email |-> DemoEmail, password |-> bcryptHash(DemoPassword),
        full_name |-> "Demo User", role |-> "attorney", onboarding_completed |-> TRUE] >>

IsSpaceOrAt(ch) == ch \in {" ", "@"}

\* /^[^\s@]+@[^\s@]+\.[^\s@]+$/.test(email)
emailRegexTest(email) ==
    \E a, d \in 1..Len(email) :
        /\ email[a] = "@" /\ email[d] = "."
        /\ 1 < a /\ a + 1 < d /\ d < Len(email)
        /\ \A i \in 1..Len(email) : i # a => ~IsSpaceOrAt(email[i])

Issue(tokens, kind, by) == {[token |-> t, kind |-> kind, by |-> by] : t \in tokens}

\* POST /api/auth/login: the response and the tokens it returns
LoginOutcome(body) ==
    IF ~TruthyText(body, "email") \/ ~TruthyText(body, "password")
    THEN [resp |-> errorHandler(createError("Email and password are required",
                                            400, "MISSING_CREDENTIALS"), nodeEnv),
          tokens |-> {}]
    ELSE LET i == IF \E k \in 1..Len(mockUsers) : mockUsers[k].email = body.email
                  THEN CHOOSE k \in 1..Len(mockUsers) : mockUsers[k].email = body.email
                  ELSE 0
         IN  IF i = 0 \/ ~bcryptCompare(body.password, mockUsers[i].password)
             THEN \* 'Invalid credentials' is caught and rethrown
                  [resp |-> errorHandler(createError("Authentication failed",
                                                     401, "AUTH_FAILED"), nodeEnv),
                   tokens |-> {}]
             ELSE LET user == mockUsers[i]
                      accessToken == generateToken([id |-> user.id, email |-> user.email,
                                                    role |-> user.role])
                      refreshToken == generateRefreshToken([id |-> user.id,
                                                            email |-> user.email])
                  IN  [resp |-> Reply(200,
                          [success |-> TRUE,
                           data |-> [user |-> [id |-> user.id, email |-> user.email,
                                               full_name |-> user.full_name,
                                               role |-> user.role,
                                               onboarding_completed |->
                                                   user.onboarding_completed],
                                     access_token |-> accessToken,
                                     refresh_token |-> refreshToken,
                                     expires_in |-> 24 * 60 * 60]]),
                       tokens |-> Issue({accessToken}, "access", "login")
                                      \cup Issue({refreshToken}, "refresh", "login")]

Login(body) ==
    /\ req' = [kind |-> "LOGIN", body |-> body, at |-> now]
    /\ resp' = LoginOutcome(body).resp
    /\ issued' = issued \cup LoginOutcome(body).tokens
    /\ IF LoginOutcome(body).tokens = {}
       THEN UNCHANGED nAuth
       ELSE nAuth < MaxAuth /\ nAuth' = nAuth + 1
    /\ UNCHANGED <<now, nodeEnv, casesVars, apiVars, extVars>>

\* POST /api/auth/register
Register(body) ==
    /\ req' = [kind |-> "REGISTER", body |-> body, at |-> now]
    /\ IF \/ ~TruthyText(body, "email") \/ ~TruthyText(body, "password")
          \/ ~TruthyStr(body, "full_name") \/ ~TruthyStr(body, "license_level")
       THEN /\ resp' = errorHandler(createError("All fields are required",
                                                400, "MISSING_FIELDS"), nodeEnv)
            /\ UNCHANGED authVars
       ELSE IF ~emailRegexTest(body.email)
       THEN /\ resp' = errorHandler(createError("Invalid email format",
                                                400, "INVALID_EMAIL"), nodeEnv)
            /\ UNCHANGED authVars
       ELSE IF Len(body.password) < 6
       THEN /\ resp' = errorHandler(createError("Password must be at least 6 characters",
                                                400, "WEAK_PASSWORD"), nodeEnv)
            /\ UNCHANGED authVars
       ELSE LET role == IF body.license_level = "attorney" THEN "attorney" ELSE "user"
                accessToken == generateToken([id |-> now, email |-> body.email,
                                              role |-> role])
                refreshToken == generateRefreshToken([id |-> now, email |-> body.email])
            IN  /\ nAuth < MaxAuth
                /\ nAuth' = nAuth + 1
                /\ resp' = Reply(201,
                      [success |-> TRUE,
                       data |-> [user |-> [id |-> now, email |-> body.email,
                                           full_name |-> body.full_name, role |-> role,
                                           onboarding_completed |-> FALSE],
                                 access_token |-> accessToken,
                                 refresh_token |-> refreshToken,
                                 expires_in |-> 24 * 60 * 60]])
                /\ issued' = issued \cup Issue({accessToken}, "access", "register")
                                     \cup Issue({refreshToken}, "refresh", "register")
    /\ UNCHANGED <<now, nodeEnv, casesVars, apiVars, extVars>>

\* POST /api/auth/refresh; body.refresh_token is a token or absent: the response and
\* the tokens it returns or accepts
RefreshOutcome(body) ==
    IF ~Has(body, "refresh_token")
    THEN [resp |-> errorHandler(createError("Refresh token required",
                                            400, "MISSING_REFRESH_TOKEN"), nodeEnv),
          tokens |-> {}]
    ELSE LET decoded == verifyRefreshToken(body.refresh_token)
         IN  IF ~decoded.ok
             THEN [resp |-> errorHandler(createError("Invalid refresh token",
                                                     401, "INVALID_REFRESH_TOKEN"), nodeEnv),
                   tokens |-> {}]
             ELSE LET accessToken == generateToken([id |-> decoded.id,
                                                    email |-> decoded.email,
                                                    role |-> "attorney"])
                  IN  [resp |-> Reply(200, [success |-> TRUE,
                                            data |-> [access_token |-> accessToken,
                                                      expires_in |-> 24 * 60 * 60]]),
                       tokens |-> Issue({accessToken}, "access", "refresh")
                                  \cup Issue({body.refresh_token}, "refresh", "presented")]

Refresh(body) ==
    /\ req' = [kind |-> "REFRESH", body |-> body, at |-> now]
    /\ resp' = RefreshOutcome(body).resp
    /\ issued' = issued \cup RefreshOutcome(body).tokens
    /\ IF RefreshOutcome(body).tokens = {}
       THEN UNCHANGED nAuth
       ELSE nAuth < MaxAuth /\ nAuth' = nAuth + 1
    /\ UNCHANGED <<now, nodeEnv, casesVars, apiVars, extVars>>

\* time passes: a millisecond, a second, the life of an access token, of a refresh token
Jumps == {1, 1000, AccessTtlSec * 1000, RefreshTtlSec * 1000}

Elapse(ms) ==
    /\ nAuth < MaxAuth
    /\ nAuth' = nAuth + 1
    /\ now' = now + ms
    /\ UNCHANGED <<nodeEnv, req, resp, issued, casesVars, apiVars, extVars>>

LoginBodies ==
    { [email |-> DemoEmail, password |-> DemoPassword],
      [email |-> DemoEmail, password |-> <<"d", "e", "m", "o">>],
      [email |-> <<"D", "@", "c", ".", "a">>, password |-> DemoPassword],
      [email |-> <<"x", "@", "c", ".", "a">>, password |-> DemoPassword],
      [email |-> DemoEmail, password |-> <<>>],
      [email |-> DemoEmail],
      [password |-> DemoPassword],
      [email |-> <<>>, password |-> <<"d", "e", "m", "o">>] }

RegisterBodies ==
    { [email |-> <<"x", "@", "c", ".", "a">>, password |-> <<"s", "e", "c", "r", "e", "t">>,
       full_name |-> "X", license_level |-> "pro_se"],
      [email |-> DemoEmail, password |-> DemoPassword,
       full_name |-> "Y", license_level |-> "attorney"],
      [email |-> <<"x", "@", "c">>, password |-> DemoPassword,
       full_name |-> "X", license_level |-> "pro_se"],
      [email |-> <<"x", "@", "c", ".", "a">>, password |-> <<"d", "e", "m", "o">>,
       full_name |-> "X", license_level |-> "pro_se"],
      [email |-> <<"x", "@", "c", ".", "a">>, password |-> DemoPassword,
       license_level |-> "pro_se"] }

\* tokens nobody issued: not a JWT, and a JWT signed with another key
ForeignTokens ==
    { [wellFormed |-> FALSE],
      [id |-> 1, email |-> DemoEmail, iat |-> 0, exp |-> RefreshTtlSec * 3,
       key |-> "another-key", wellFormed |-> TRUE] }

RefreshBodies ==
    {<<>>} \cup {[refresh_token |-> t] : t \in ForeignTokens \cup {i.token : i \in issued}}

InitAuth ==
    /\ InitCases

NextAuth ==
    \/ \E b \in LoginBodies : Login(b)
    \/ \E b \in RegisterBodies : Register(b)
    \/ \E b \in RefreshBodies : Refresh(b)
    \/ \E ms \in Jumps : Elapse(ms)

SpecAuth == InitAuth /\ [][NextAuth]_vars

(***************************************************************************)
(* Claims about the auth routes, checked under SpecAuth.                   *)
(***************************************************************************)
\* the response carries tokens
CarriesToken(r) ==
    Has(r.body, "data")
        /\ (Has(r.body.data, "access_token") \/ Has(r.body.data, "refresh_token"))

\* C7: POST /api/auth/login answers with success and a non-empty access_token and
\* refresh_token exactly when email is demo@caseclerk.ai and password is demo123;
\* a missing email or password gives 400, any other credentials 401 and no token.
C7_LoginDemoOnly ==
    req.kind = "LOGIN" =>
        LET b == req.body
            missing == \/ ~Has(b, "email") \/ b.email = <<>>
                       \/ ~Has(b, "password") \/ b.password = <<>>
            demo == ~missing /\ b.email = DemoEmail /\ b.password = DemoPassword
            success == /\ resp.status = 200
                       /\ Has(resp.body, "data") /\ resp.body.success
                       /\ Has(resp.body.data, "access_token")
                       /\ resp.body.data.access_token.wellFormed
                       /\ Has(resp.body.data, "refresh_token")
                       /\ resp.body.data.refresh_token.wellFormed
        IN  /\ success <=> demo
            /\ missing => resp.status = 400
            /\ (~missing /\ ~demo) => resp.status = 401
            /\ ~demo => ~CarriesToken(resp)

C7_Witness ==
    /\ req.kind = "LOGIN"
    /\ req.body = [email |-> DemoEmail, password |-> DemoPassword]
    /\ resp.status = 200
    /\ resp.body.data.access_token.exp = (req.at \div 1000) + 86400

\* C8: POST /api/auth/refresh with a refresh token that login or register issued
\* (and that has not expired) returns a new access token with the id and email of
\* the refresh token; with no refresh_token it answers 400; with a token that
\* does not verify or has expired it answers 401 and issues no token.
C8_Refresh ==
    req.kind = "REFRESH" =>
        LET b == req.body
            t == b.refresh_token
            verifies == t.wellFormed /\ t.key = JWT_SECRET
            expired == (req.at \div 1000) >= t.exp
            fromLogin == \E i \in issued :
                            i.token = t /\ i.kind = "refresh" /\ i.by \in {"login", "register"}
        IN  /\ ~Has(b, "refresh_token") => resp.status = 400 /\ ~CarriesToken(resp)
            /\ (Has(b, "refresh_token") /\ (~verifies \/ expired))
                  => resp.status = 401 /\ ~CarriesToken(resp)
            /\ (Has(b, "refresh_token") /\ fromLogin /\ ~expired)
                  => /\ resp.status = 200
                     /\ resp.body.data.access_token.id = t.id
                     /\ resp.body.data.access_token.email = t.email
                     /\ resp.body.data.access_token.key = JWT_SECRET
                     /\ resp.body.data.access_token.exp = (req.at \div 1000) + 86400

C8_Witness ==
    /\ req.kind = "REFRESH"
    /\ Has(req.body, "refresh_token")
    /\ \E i \in issued : /\ i.token = req.body.refresh_token
                         /\ i.kind = "refresh" /\ i.by = "register"
    /\ req.at > StartMs + 86400000
    /\ resp.status = 200
    /\ resp.body.data.access_token.id = req.body.refresh_token.id

\* C14: refresh tokens are rotated: a successful POST /api/auth/refresh returns
\* a new refresh token, and the refresh token it was given is accepted by no
\* later refresh.
C14_RefreshRotation ==
    [][ (nAuth' # nAuth /\ req'.kind = "REFRESH" /\ resp'.status = 200)
            => /\ Has(resp'.body.data, "refresh_token")
               /\ resp'.body.data.refresh_token # req'.body.refresh_token
               /\ ~\E i \in issued : /\ i.by = "presented"
                                     /\ i.token = req'.body.refresh_token ]_vars

\* C19: the access token that refresh returns has the role of the access token
\* that login or registration issued to the same user.
C19_RefreshKeepsRole ==
    \A i \in issued :
        (i.by = "refresh" /\ i.kind = "access")
            => LET first == {j \in issued : /\ j.kind = "access"
                                            /\ j.by \in {"login", "register"}
                                            /\ j.token.id = i.token.id
                                            /\ j.token.email = i.token.email}
               IN  first # {} => \E j \in first : j.token.role = i.token.role

(***************************************************************************)
(* middleware/rateLimiter.  A path is the sequence of its '/segment'       *)
(* parts; req.path inside app.use('/api/', ..) is the path without '/api'. *)
(***************************************************************************)
DefaultMaxRequests == 100
LoginMaxRequests == 5
UploadMaxRequests == 10
AiMaxRequests == 20
LongWindowMs == 15 * 60 * 1000
ShortWindowMs == 60 * 1000

\* maxRequests and windowMs for req.path
LimitsFor(path) ==
    IF Includes(path, <<"/auth", "/login">>)
    THEN [maxRequests |-> LoginMaxRequests, windowMs |-> LongWindowMs]
    ELSE IF Includes(path, <<"/upload">>)
    THEN [maxRequests |-> UploadMaxRequests, windowMs |-> ShortWindowMs]
    ELSE IF \E i \in 1..(Len(path) - 1) : path[i] = "/ai"
    THEN [maxRequests |-> AiMaxRequests, windowMs |-> ShortWindowMs]
    ELSE [maxRequests |-> DefaultMaxRequests, windowMs |-> LongWindowMs]

\* Math.ceil(a / b) for a >= 0, b > 0
CeilDiv(a, b) == (a + b - 1) \div b

\* a plausible slip: '>' for '>=' in the limit test
rateLimiterOffByOne(clientId, path) ==
    LET lim == LimitsFor(path)
        key == <<clientId, path>>
    IN  IF ~Has(store, key) \/ now > store[key].resetTime
        THEN [admit |-> TRUE,
              store |-> Spread(store, [k \in {key} |->
                                          [count |-> 1, resetTime |-> now + lim.windowMs]]),
              headers |-> [limit |-> lim.maxRequests, remaining |-> lim.maxRequests - 1,
                           reset |-> now + lim.windowMs]]
        ELSE IF store[key].count > lim.maxRequests
        THEN [admit |-> FALSE,
              store |-> store,
              resp |-> [status |-> 429, by |-> "rateLimiter", sent |-> 1,
                        body |-> [success |-> FALSE, message |-> "Too many requests",
                                  retryAfter |-> CeilDiv(store[key].resetTime - now, 1000)]]]
        ELSE [admit |-> TRUE,
              store |-> [store EXCEPT ![key].count = @ + 1],
              headers |-> [limit |-> lim.maxRequests,
                           remaining |-> lim.maxRequests - (store[key].count + 1),
                           reset |-> store[key].resetTime]]

\* rateLimiter(req, res, next): whether next() is called, the store it leaves, the
\* headers it sets and the response it sends when it does not call next()
rateLimiterOn(st, clientId, path) ==
    LET lim == LimitsFor(path)
        key == <<clientId, path>>
    IN  IF ~Has(st, key) \/ now > st[key].resetTime
        THEN [admit |-> TRUE,
              store |-> Spread(st, [k \in {key} |->
                                       [count |-> 1, resetTime |-> now + lim.windowMs]]),
              headers |-> [limit |-> lim.maxRequests, remaining |-> lim.maxRequests - 1,
                           reset |-> now + lim.windowMs]]
        ELSE IF st[key].count >= lim.maxRequests
        THEN [admit |-> FALSE,
              store |-> st,
              resp |-> [status |-> 429, by |-> "rateLimiter", sent |-> 1,
                        body |-> [success |-> FALSE, message |-> "Too many requests",
                                  retryAfter |-> CeilDiv(st[key].resetTime - now, 1000)]]]
        ELSE [admit |-> TRUE,
              store |-> [st EXCEPT ![key].count = @ + 1],
              headers |-> [limit |-> lim.maxRequests,
                           remaining |-> lim.maxRequests - (st[key].count + 1),
                           reset |-> st[key].resetTime]]

rateLimiter(clientId, path) == rateLimiterOn(store, clientId, path)

(***************************************************************************)
(* middleware/auth: authMiddleware.  The Authorization header is <<>> when *)
(* absent, else its scheme (the text before the first space) and token.    *)
(***************************************************************************)
Direct(status, by, message) ==
    [status |-> status, by |-> by, sent |-> 1,
     body |-> [success |-> FALSE, message |-> message]]

\* a plausible slip: jwt.decode instead of jwt.verify
authMiddlewareDecodeOnly(authHeader) ==
    IF ~Has(authHeader, "scheme") \/ authHeader.scheme # "Bearer"
    THEN [next |-> FALSE, resp |-> Direct(401, "authMiddleware", "Access token required")]
    ELSE IF ~authHeader.token.wellFormed
    THEN [next |-> FALSE, resp |-> Direct(401, "authMiddleware", "Invalid token")]
    ELSE [next |-> TRUE, user |-> [id |-> authHeader.token.id]]

\* authMiddleware(req, res, next): next() with req.user, or the response it sends
authMiddleware(authHeader) ==
    IF ~Has(authHeader, "scheme") \/ authHeader.scheme # "Bearer"
    THEN [next |-> FALSE, resp |-> Direct(401, "authMiddleware", "Access token required")]
    ELSE LET token == authHeader.token
             decoded == jwtVerify(token)
         IN  IF ~decoded.ok
             THEN \* TokenExpiredError extends JsonWebTokenError
                  IF decoded.error \in {"JsonWebTokenError", "TokenExpiredError"}
                  THEN [next |-> FALSE,
                        resp |-> Direct(401, "authMiddleware", "Invalid token")]
                  ELSE [next |-> FALSE,
                        resp |-> Direct(500, "authMiddleware", "Authentication error")]
             ELSE IF token.exp * 1000 < now
             THEN [next |-> FALSE, resp |-> Direct(401, "authMiddleware", "Token expired")]
             ELSE [next |-> TRUE,
                   user |-> IF Has(token, "role")
                            THEN [id |-> token.id, email |-> token.email, role |-> token.role]
                            ELSE [id |-> token.id, email |-> token.email]]

(***************************************************************************)
(* The server entry point: the middleware chain of one request.            *)
(***************************************************************************)
ProtectedMounts ==
    {"/users", "/cases", "/documents", "/call-logs", "/calendar-events", "/ai"}

IsApi(path) == Len(path) >= 1 /\ path[1] = "/api"
IsProtected(path) == Len(path) >= 2 /\ path[1] = "/api" /\ path[2] \in ProtectedMounts

\* app.use('*'): the 404 handler; in production app.get('*') serves the frontend first
notFoundHandler(r) ==
    IF nodeEnv = "production" /\ r.method = "GET"
    THEN [status |-> 200, by |-> "static", sent |-> 1, body |-> [file |-> "index.html"]]
    ELSE [status |-> 404, by |-> "notFound", sent |-> 1,
          body |-> [success |-> FALSE, message |-> "Route not found", path |-> r.path]]

\* the routers behind authMiddleware: the response, the cases array left
ProtectedRouter(r, user) ==
    LET rest == SubSeq(r.path, 3, Len(r.path))
    IN  IF r.path[2] = "/cases" /\ r.method = "POST" /\ rest = <<>>
        THEN PostOutcome(r.body, user)
        ELSE IF r.path[2] = "/cases" /\ r.method = "GET" /\ rest = <<>>
        THEN [resp |-> ListReply(r.query), cases |-> mockCases]
        ELSE IF r.path[2] = "/cases" /\ r.method = "DELETE" /\ Len(rest) = 1
        THEN DeleteOutcome(r.id)
        ELSE \* the routes of the other routers, which have their own sections
             [resp |-> Reply(200, [success |-> TRUE, route |-> r.path]),
              cases |-> mockCases]

\* what the chain after the rate limiter does with request r: the response, the
\* components that ran, the cases array and the tokens issued
Routed(r) ==
    IF r.path = <<"/health">> /\ r.method = "GET"
    THEN [resp |-> Reply(200, [status |-> "healthy"]), via |-> <<"handler">>,
          cases |-> mockCases, tokens |-> {}]
    ELSE IF r.path = <<"/api", "/auth", "/login">> /\ r.method = "POST"
    THEN [resp |-> LoginOutcome(r.body).resp, via |-> <<"handler">>,
          cases |-> mockCases, tokens |-> LoginOutcome(r.body).tokens]
    ELSE IF r.path = <<"/api", "/auth", "/logout">> /\ r.method = "POST"
    THEN [resp |-> Reply(200, [success |-> TRUE, message |-> "Logged out successfully"]),
          via |-> <<"handler">>, cases |-> mockCases, tokens |-> {}]
    ELSE IF IsProtected(r.path)
    THEN LET auth == authMiddleware(r.authorization)
         IN  IF ~auth.next
             THEN [resp |-> auth.resp, via |-> <<"authMiddleware">>,
                   cases |-> mockCases, tokens |-> {}]
             ELSE [resp |-> ProtectedRouter(r, auth.user).resp,
                   via |-> <<"authMiddleware", "handler">>,
                   cases |-> ProtectedRouter(r, auth.user).cases, tokens |-> {}]
    ELSE [resp |-> notFoundHandler(r), via |-> <<"notFound">>,
          cases |-> mockCases, tokens |-> {}]

\* one request through the chain: rateLimiter on /api/, then the routes
ApiRequest(r) ==
    /\ nApi < MaxApi
    /\ nApi' = nApi + 1
    /\ req' = [kind |-> "API", request |-> r, at |-> now]
    /\ IF IsApi(r.path) /\ ~rateLimiter(r.ip, Tail(r.path)).admit
       THEN /\ store' = store
            /\ resp' = Spread(rateLimiter(r.ip, Tail(r.path)).resp,
                              [via |-> <<"rateLimiter">>])
            /\ UNCHANGED <<mockCases, issued>>
       ELSE /\ store' = IF IsApi(r.path) THEN rateLimiter(r.ip, Tail(r.path)).store
                        ELSE store
            /\ resp' = Spread(Routed(r).resp,
                              [via |-> IF IsApi(r.path)
                                       THEN <<"rateLimiter">> \o Routed(r).via
                                       ELSE Routed(r).via])
            /\ mockCases' = Routed(r).cases
            /\ issued' = issued \cup Routed(r).tokens
    /\ UNCHANGED <<now, nodeEnv, lastPost, nWrites, nAuth, extVars>>

\* time passes between requests
ApiElapse(ms) ==
    /\ nApi < MaxApi
    /\ nApi' = nApi + 1
    /\ now' = now + ms
    /\ req' = [kind |-> "ELAPSE"]
    /\ UNCHANGED <<nodeEnv, resp, store, issued, nAuth, casesVars, extVars>>

ClientIp == "203.0.113.7"

\* the Authorization headers a client may send
AuthHeaders ==
    { <<>>, [scheme |-> "Basic", token |-> [wellFormed |-> FALSE]] }
        \cup {[scheme |-> "Bearer", token |-> t] :
                t \in ForeignTokens \cup {i.token : i \in issued}}

ApiRequests ==
    { [method |-> "POST", path |-> <<"/api", "/auth", "/login">>, ip |-> ClientIp,
       authorization |-> <<>>, body |-> [email |-> DemoEmail, password |-> DemoPassword]],
      [method |-> "GET", path |-> <<"/health">>, ip |-> ClientIp, authorization |-> <<>>],
      [method |-> "GET", path |-> <<"/nowhere">>, ip |-> ClientIp, authorization |-> <<>>],
      [method |-> "POST", path |-> <<"/api", "/nothing">>, ip |-> ClientIp,
       authorization |-> <<>>] }
    \cup { [method |-> "POST", path |-> <<"/api", "/cases">>, ip |-> ClientIp,
            authorization |-> h,
            body |-> [case_number |-> CaseNo3, title |-> Title3, status |-> "active"]] :
           h \in AuthHeaders }
    \cup { [method |-> "POST", path |-> <<"/api", "/documents", "/upload">>,
            ip |-> ClientIp, authorization |-> h] : h \in AuthHeaders }

\* the store after the client's earlier requests of the current windows: none, or one
\* short of the limit on the login and the upload paths (windows opened at time 0)
EarlierTraffic ==
    { <<>>,
      [k \in {<<ClientIp, <<"/auth", "/login">>>>} |->
          [count |-> LoginMaxRequests - 1, resetTime |-> LongWindowMs]],
      [k \in {<<ClientIp, <<"/documents", "/upload">>>>} |->
          [count |-> UploadMaxRequests - 1, resetTime |-> ShortWindowMs]] }

InitApi ==
    /\ mockCases = InitialCases
    /\ now = StartMs
    /\ nodeEnv \in {"production", "development"}
    /\ req = [kind |-> "none"]
    /\ resp = NoResponse
    /\ lastPost = <<>>
    /\ nWrites = 0
    /\ issued = {}
    /\ nAuth = 0
    /\ store \in EarlierTraffic
    /\ nApi = 0
    /\ InitExt

NextApi ==
    \/ \E r \in ApiRequests : ApiRequest(r)
    \/ ApiElapse(AccessTtlSec * 1000)

SpecApi == InitApi /\ [][NextApi]_vars

(***************************************************************************)
(* Properties of the middleware chain.                                     *)
(***************************************************************************)
\* a step in which the chain answered a request
Answered == nApi' # nApi /\ req'.kind = "API"

\* the request carries 'Bearer <token>' with a token signed with the secret, unexpired
CarriesValidBearer(r, at) ==
    /\ Has(r.authorization, "scheme")
    /\ r.authorization.scheme = "Bearer"
    /\ r.authorization.token.wellFormed
    /\ r.authorization.token.key = "your-secret-key-change-in-production"
    /\ (at \div 1000) < r.authorization.token.exp

Unauthenticated(r, at) ==
    /\ Len(r.path) >= 2
    /\ r.path[1] = "/api"
    /\ r.path[2] \in {"/users", "/cases", "/documents", "/call-logs",
                      "/calendar-events", "/ai"}
    /\ ~CarriesValidBearer(r, at)

C9_ErrorsFromErrorHandler ==
    (req.kind = "API" /\ resp.status >= 400)
        => /\ resp.by = "errorHandler"
           /\ resp.body.success = FALSE
           /\ Has(resp.body, "error")
           /\ Has(resp.body.error, "code")
           /\ Has(resp.body.error, "message")

(***************************************************************************)
(* routes/documents.  mockDocuments holds references into heap, because    *)
(* the upload timer keeps the object it created while PUT stores a new one.*)
(***************************************************************************)
FileSizeLimit == 50 * 1024 * 1024
UploadDelayMs == 2000
ProcessDelayMs == 3000

allowedTypes ==
    {"application/pdf", "application/msword",
     "application/vnd.openxmlformats-officedocument.wordprocessingml.document",
     "text/plain", "image/jpeg", "image/png", "image/gif"}

\* the document at position i of mockDocuments
DocAt(i) == heap[mockDocuments[i]]

\* mockDocuments.findIndex(d => d.id === id), 0 for -1
DocIndexOfId(id) ==
    IF \E i \in 1..Len(mockDocuments) : DocAt(i).id = id
    THEN CHOOSE i \in 1..Len(mockDocuments) :
            /\ DocAt(i).id = id
            /\ \A j \in 1..(i - 1) : DocAt(j).id # id
    ELSE 0

DocNotFound == errorHandler(createError("Document not found", 404, "DOCUMENT_NOT_FOUND"),
                            nodeEnv)

\* a plausible slip: a fileFilter that accepts every type
uploadSingleAnyType(file) ==
    IF file = <<>> THEN [ok |-> TRUE]
    ELSE IF file.size > FileSizeLimit
    THEN [ok |-> FALSE,
          error |-> [name |-> "MulterError", message |-> "File too large",
                     code |-> CodeStr("LIMIT_FILE_SIZE")]]
    ELSE [ok |-> TRUE]

\* upload.single('file'): multer calls next(), or next(error) from the fileFilter
\* (on the part's header) or from the size limit (while the part is read)
uploadSingle(file) ==
    IF file = <<>> THEN [ok |-> TRUE]
    ELSE IF file.mimetype \notin allowedTypes
    THEN [ok |-> FALSE, error |-> [name |-> "Error", message |-> "File type not supported"]]
    ELSE IF file.size > FileSizeLimit
    THEN [ok |-> FALSE,
          error |-> [name |-> "MulterError", message |-> "File too large",
                     code |-> CodeStr("LIMIT_FILE_SIZE")]]
    ELSE [ok |-> TRUE]

\* const { case_id, document_type = 'other' } = req.body; newDocument
NewDocument(file, body, user) ==
    Spread(IF Has(body, "case_id") THEN [case_id |-> body.case_id] ELSE <<>>,
           [id |-> now, original_name |-> file.originalname, file_name |-> "file-suffix",
            file_size |-> file.size, mime_type |-> file.mimetype,
            document_type |-> IF Has(body, "document_type") THEN body.document_type
                              ELSE "other",
            status |-> IF file.mimetype \in {"application/pdf", "text/plain"}
                       THEN "processing" ELSE "completed",
            tags |-> <<>>, created_date |-> now, updated_date |-> now,
            user_id |-> UserIdOf(user)])

\* POST /api/documents/upload
UploadDocument(file, body, user) ==
    /\ ~crashed
    /\ nDocs < MaxDocs
    /\ nDocs' = nDocs + 1
    /\ req' = [kind |-> "UPLOAD", file |-> file, body |-> body, at |-> now]
    /\ IF ~uploadSingle(file).ok
       THEN /\ resp' = errorHandler(uploadSingle(file).error, nodeEnv)
            /\ UNCHANGED <<mockDocuments, heap, timers>>
       ELSE IF file = <<>>
       THEN /\ resp' = errorHandler(createError("No file uploaded", 400, "NO_FILE"), nodeEnv)
            /\ UNCHANGED <<mockDocuments, heap, timers>>
       ELSE LET ref == Len(heap) + 1
                doc == NewDocument(file, body, user)
            IN  /\ heap' = Append(heap, doc)
                /\ mockDocuments' = Append(mockDocuments, ref)
                /\ timers' = IF doc.status = "processing"
                             THEN Append(timers, [kind |-> "upload", ref |-> ref,
                                                  due |-> now + UploadDelayMs])
                             ELSE timers
                /\ resp' = Reply(201, [success |-> TRUE, data |-> doc,
                                       message |-> "Document uploaded successfully"])
    /\ UNCHANGED <<now, nodeEnv, crashed, beyondDocs>>

\* PUT /api/documents/:id: a new object takes the place of the stored one
PutDocument(id, updates) ==
    /\ ~crashed
    /\ nDocs < MaxDocs
    /\ nDocs' = nDocs + 1
    /\ req' = [kind |-> "PUTDOC", id |-> id, body |-> updates, at |-> now]
    /\ IF DocIndexOfId(id) = 0
       THEN /\ resp' = DocNotFound
            /\ UNCHANGED <<mockDocuments, heap>>
       ELSE LET documentIndex == DocIndexOfId(id)
                merged == Spread(Spread(DocAt(documentIndex), updates),
                                 [updated_date |-> now])
            IN  /\ heap' = Append(heap, merged)
                /\ mockDocuments' = [mockDocuments EXCEPT ![documentIndex] = Len(heap) + 1]
                /\ resp' = Reply(200, [success |-> TRUE, data |-> merged,
                                       message |-> "Document updated successfully"])
    /\ UNCHANGED <<now, nodeEnv, timers, crashed, beyondDocs>>

\* DELETE /api/documents/:id
DeleteDocument(id) ==
    /\ ~crashed
    /\ nDocs < MaxDocs
    /\ nDocs' = nDocs + 1
    /\ req' = [kind |-> "DELDOC", id |-> id, at |-> now]
    /\ IF DocIndexOfId(id) = 0
       THEN /\ resp' = DocNotFound
            /\ UNCHANGED mockDocuments
       ELSE /\ mockDocuments' = RemoveAt(mockDocuments, DocIndexOfId(id))
            /\ resp' = Reply(200, [success |-> TRUE,
                                   message |-> "Document deleted successfully"])
    /\ UNCHANGED <<now, nodeEnv, heap, timers, crashed, beyondDocs>>

\* POST /api/documents/:id/process: the timer keeps the index, not the object
ProcessDocument(id) ==
    /\ ~crashed
    /\ nDocs < MaxDocs
    /\ nDocs' = nDocs + 1
    /\ req' = [kind |-> "PROCESS", id |-> id, at |-> now]
    /\ IF DocIndexOfId(id) = 0
       THEN /\ resp' = DocNotFound
            /\ UNCHANGED <<heap, timers>>
       ELSE LET documentIndex == DocIndexOfId(id)
                ref == mockDocuments[documentIndex]
                doc == Spread(heap[ref], [status |-> "processing", updated_date |-> now])
            IN  /\ heap' = [heap EXCEPT ![ref] = doc]
                /\ timers' = Append(timers, [kind |-> "process", index |-> documentIndex,
                                             id |-> id, due |-> now + ProcessDelayMs])
                /\ resp' = Reply(200, [success |-> TRUE,
                                       message |-> "Document processing started",
                                       data |-> doc])
    /\ UNCHANGED <<now, nodeEnv, mockDocuments, crashed, beyondDocs>>

\* GET /api/documents/:id/status
GetDocumentStatus(id) ==
    /\ ~crashed
    /\ nDocs < MaxDocs
    /\ nDocs' = nDocs + 1
    /\ req' = [kind |-> "DOCSTATUS", id |-> id, at |-> now]
    /\ resp' = IF DocIndexOfId(id) = 0 THEN DocNotFound
               ELSE LET document == DocAt(DocIndexOfId(id))
                    IN  Reply(200,
                          [success |-> TRUE,
                           data |-> Spread(
                              [status |-> document.status,
                               progress |-> IF document.status = "completed" THEN 100
                                            ELSE IF document.status = "processing" THEN 75
                                            ELSE IF document.status = "failed" THEN 0
                                            ELSE 50],
                              [k \in {"ai_summary", "extracted_text"} \cap DOMAIN document
                                  |-> document[k]])])
    /\ UNCHANGED <<now, nodeEnv, mockDocuments, heap, timers, crashed,
                   beyondDocs>>

\* the earliest due time of a pending timer
NextDue == CHOOSE d \in {timers[i].due : i \in 1..Len(timers)} :
              \A i \in 1..Len(timers) : d <= timers[i].due

\* the object a timer callback writes to: the one it captured (upload), or the one
\* at the captured index now (process); 0 when that index is past the end
TimerTarget(t) ==
    IF t.kind = "upload" THEN t.ref
    ELSE IF t.index <= Len(mockDocuments) THEN mockDocuments[t.index] ELSE 0

Completed(doc, t) ==
    IF t.kind = "upload"
    THEN Spread(doc, [status |-> "completed",
                      ai_summary |-> "AI-generated summary of the document content.",
                      extracted_text |-> "Extracted text from the document...",
                      tags |-> <<"auto-generated", "processed">>,
                      updated_date |-> now])
    ELSE Spread(doc, [status |-> "completed",
                      ai_summary |-> "AI-generated summary after processing.",
                      extracted_text |-> "Extracted and processed text content.",
                      updated_date |-> now])

\* a setTimeout callback runs: the first pending timer that is due
FireTimer ==
    /\ ~crashed
    /\ timers # <<>>
    /\ now >= NextDue
    /\ LET i == CHOOSE k \in 1..Len(timers) :
                   /\ timers[k].due = NextDue
                   /\ \A j \in 1..(k - 1) : timers[j].due # NextDue
           t == timers[i]
       IN  /\ timers' = RemoveAt(timers, i)
           /\ req' = [kind |-> "TIMER", timer |-> t, at |-> now]
           /\ IF TimerTarget(t) = 0
              THEN \* TypeError: cannot set properties of undefined
                   crashed' = TRUE /\ heap' = heap
              ELSE /\ heap' = [heap EXCEPT ![TimerTarget(t)] = Completed(@, t)]
                   /\ crashed' = crashed
    /\ UNCHANGED <<now, nodeEnv, resp, mockDocuments, nDocs, beyondDocs>>

\* the clock reaches the next pending timer
AdvanceToTimer ==
    /\ ~crashed
    /\ timers # <<>>
    /\ now < NextDue
    /\ now' = NextDue
    /\ req' = [kind |-> "ELAPSE"]
    /\ UNCHANGED <<nodeEnv, resp, docVars, beyondDocs>>

\* a second passes, no later than the next pending timer
DocTick ==
    /\ ~crashed
    /\ nDocs < MaxDocs
    /\ nDocs' = nDocs + 1
    /\ timers # <<>> => now + 1000 <= NextDue
    /\ now' = now + 1000
    /\ req' = [kind |-> "ELAPSE"]
    /\ UNCHANGED <<nodeEnv, resp, mockDocuments, heap, timers, crashed,
                   beyondDocs>>

\* req.file as multer would deliver it, <<>> when the request has no file part
UploadFiles ==
    { <<>>,
      [originalname |-> "brief.pdf", mimetype |-> "application/pdf", size |-> 4096],
      [originalname |-> "photo.png", mimetype |-> "image/png", size |-> FileSizeLimit],
      [originalname |-> "scan.pdf", mimetype |-> "application/pdf",
       size |-> FileSizeLimit + 1],
      [originalname |-> "tool.exe", mimetype |-> "application/x-msdownload",
       size |-> 4096] }

DocPutBodies ==
    { [document_type |-> "motion"], [user_id |-> 9, created_date |-> 0] }

\* req.params.id: the id of a stored document, or one that none has
DocIds == {DocAt(i).id : i \in 1..Len(mockDocuments)} \cup {0}

InitDocs ==
    /\ InitCases

NextDocs ==
    \/ \E f \in UploadFiles : UploadDocument(f, [case_id |-> 1], [id |-> 7])
    \/ \E id \in DocIds, b \in DocPutBodies : PutDocument(id, b)
    \/ \E id \in DocIds : DeleteDocument(id)
    \/ \E id \in DocIds : ProcessDocument(id)
    \/ \E id \in DocIds : GetDocumentStatus(id)
    \/ FireTimer
    \/ AdvanceToTimer
    \/ DocTick

SpecDocs == InitDocs /\ [][NextDocs]_vars

(***************************************************************************)
(* Properties of the documents router, checked under SpecDocs.             *)
(***************************************************************************)
\* a step in which the documents router handled a request of this kind
DocHandled(kind) == nDocs' # nDocs /\ req'.kind = kind

\* C11: an upload with a file larger than 50MB or of a MIME type outside the
\* whitelist gets an error response and adds no document; an upload without a
\* file gets 400 NO_FILE and adds no document either.
C11_UploadRejections ==
    [][ DocHandled("UPLOAD") =>
          LET file == req'.file
              whitelist == {"application/pdf", "application/msword",
                  "application/vnd.openxmlformats-officedocument.wordprocessingml.document",
                  "text/plain", "image/jpeg", "image/png", "image/gif"}
          IN  /\ (file # <<>> /\ (file.size > 50 * 1024 * 1024
                                   \/ file.mimetype \notin whitelist))
                    => /\ resp'.status >= 400
                       /\ resp'.body.success = FALSE
                       /\ mockDocuments' = mockDocuments
                       /\ heap' = heap
              /\ file = <<>>
                    => /\ resp'.status = 400
                       /\ resp'.body.error.code = CodeStr("NO_FILE")
                       /\ mockDocuments' = mockDocuments
                       /\ heap' = heap ]_vars

\* a PDF of 50MB + 1 byte was answered with the size-limit error
C11_Witness ==
    /\ req.kind = "UPLOAD"
    /\ req.file # <<>>
    /\ req.file.size = 50 * 1024 * 1024 + 1
    /\ req.file.mimetype = "application/pdf"
    /\ resp.status = 500
    /\ resp.body.error.code = CodeStr("LIMIT_FILE_SIZE")
    /\ Len(mockDocuments) = 1

\* timers fire once they are due, and the clock reaches every pending timer
SpecDocsFair == SpecDocs /\ WF_vars(FireTimer) /\ WF_vars(AdvanceToTimer)

\* the ids a document of a run can have: '1', or the time of its upload
DocIdSpace == {1} \cup {StartMs + 1000 * k : k \in 0..(3 * MaxDocs)}

\* C16: every stored document that is in status 'processing' after an upload or
\* POST /:id/process is eventually deleted or 'completed' with ai_summary and
\* extracted_text, also when PUT /:id requests arrive before the timer fires.
\* (PUT bodies of the run never carry a status, so 'processing' comes only from
\* those two routes; a run that the failing timer callback ended counts as done;
\* documents uploaded in one millisecond share an id, so the summary is asked of
\* those of a type that upload processes.)
C16_ProcessingCompletes ==
    \A id \in DocIdSpace :
        (\E i \in 1..Len(mockDocuments) :
            DocAt(i).id = id /\ DocAt(i).status = "processing")
        ~> (\/ crashed
            \/ \A i \in 1..Len(mockDocuments) :
                  DocAt(i).id = id
                    => /\ DocAt(i).status = "completed"
                       /\ DocAt(i).mime_type \in {"application/pdf", "text/plain"}
                            => /\ Has(DocAt(i), "ai_summary")
                               /\ Has(DocAt(i), "extracted_text"))

(***************************************************************************)
(* middleware/rateLimiter on its own: one client, the requests it sends to *)
(* one path, the clock and the cleanup timer.                              *)
(***************************************************************************)
\* a request reaches rateLimiter(req, res, next)
\* what the limiter leaves of a request: the headers it set on calling next(), or
\* the response it sent
LimiterAnswer(out) ==
    IF out.admit
    THEN [status |-> 0, by |-> "next", sent |-> 0, body |-> <<>>, headers |-> out.headers]
    ELSE out.resp

Limit(clientId, path) ==
    /\ nLim < MaxLim
    /\ nLim' = nLim + 1
    /\ req' = [kind |-> "LIMIT", ip |-> clientId, path |-> path, at |-> now,
               swept |-> Has(uncleaned, <<clientId, path>>)
                             /\ ~Has(store, <<clientId, path>>)]
    /\ store' = rateLimiter(clientId, path).store
    /\ resp' = LimiterAnswer(rateLimiter(clientId, path))
    /\ admitted' = IF rateLimiter(clientId, path).admit
                   THEN Append(admitted, [key |-> <<clientId, path>>, at |-> now])
                   ELSE admitted
    /\ uncleaned' = rateLimiterOn(uncleaned, clientId, path).store
    /\ twin' = LimiterAnswer(rateLimiterOn(uncleaned, clientId, path))
    /\ UNCHANGED <<now, nodeEnv, nApi, nIdle, beyondLimiter>>

\* a plausible slip: '<=' for '<', which deletes a record at the last millisecond of
\* its window
CleanupAtReset ==
    /\ nIdle < MaxIdle
    /\ nIdle' = nIdle + 1
    /\ store' = [k \in {j \in DOMAIN store : ~(store[j].resetTime <= now)} |-> store[k]]
    /\ req' = [kind |-> "CLEANUP", at |-> now]
    /\ UNCHANGED <<now, nodeEnv, resp, nApi, admitted, nLim, uncleaned, twin,
                   beyondLimiter>>

\* the setInterval callback: delete the records whose resetTime has passed
Cleanup ==
    /\ nIdle < MaxIdle
    /\ nIdle' = nIdle + 1
    /\ store' = [k \in {j \in DOMAIN store : ~(store[j].resetTime < now)} |-> store[k]]
    /\ req' = [kind |-> "CLEANUP", at |-> now]
    /\ UNCHANGED <<now, nodeEnv, resp, nApi, admitted, nLim, uncleaned, twin,
                   beyondLimiter>>

LimiterElapse(ms) ==
    /\ nIdle < MaxIdle
    /\ nIdle' = nIdle + 1
    /\ now' = now + ms
    /\ req' = [kind |-> "ELAPSE"]
    /\ UNCHANGED <<nodeEnv, resp, store, nApi, admitted, nLim, uncleaned, twin,
                   beyondLimiter>>

LoginPath == <<"/auth", "/login">>

\* to just before the end of a login window, and from there to just past it; to
\* the last millisecond of a window
LimiterJumps == {LongWindowMs - 2, 3, LongWindowMs}

InitLimiter ==
    /\ InitCases

NextLimiter ==
    \/ Limit(ClientIp, LoginPath)
    \/ Cleanup
    \/ \E ms \in LimiterJumps : LimiterElapse(ms)

SpecLimiter == InitLimiter /\ [][NextLimiter]_vars

(***************************************************************************)
(* Properties of the rate limiter, checked under SpecLimiter.              *)
(***************************************************************************)
\* the limits the claims state for a path: 5 per 15 minutes for /auth/login,
\* 10 per minute for /upload, 100 per 15 minutes by default
StatedMax(path) ==
    IF path = <<"/auth", "/login">> THEN 5
    ELSE IF path[Len(path)] = "/upload" THEN 10 ELSE 100

StatedWindowMs(path) ==
    IF path = <<"/auth", "/login">> THEN 15 * 60 * 1000
    ELSE IF path[Len(path)] = "/upload" THEN 60 * 1000 ELSE 15 * 60 * 1000

\* the requests with this key let through at a time in [from, to)
AdmittedIn(key, from, to) ==
    {j \in 1..Len(admitted) :
        admitted[j].key = key /\ from <= admitted[j].at /\ admitted[j].at < to}

\* C12: the limiter is a sliding-window counter: in any interval of length
\* windowMs, wherever it starts, at most maxRequests requests of one client to
\* one path are admitted.
C12_SlidingWindow ==
    \A i \in 1..Len(admitted) :
        Cardinality(AdmittedIn(admitted[i].key, admitted[i].at,
                               admitted[i].at + StatedWindowMs(admitted[i].key[2])))
            <= StatedMax(admitted[i].key[2])

\* C13: between the creation of a key's record and its resetTime at most
\* maxRequests requests with that key are let through; every further one gets 429
\* with retryAfter = the seconds left until resetTime, rounded up, and leaves the
\* count as it is; the first request after resetTime is let through and opens a
\* new window with count 1.
C13_FixedWindow ==
    /\ [](\A key \in DOMAIN store :
            LET n == Cardinality(AdmittedIn(key,
                                   store[key].resetTime - StatedWindowMs(key[2]),
                                   store[key].resetTime + 1))
            IN  n = store[key].count /\ n <= StatedMax(key[2]))
    /\ [][ (nLim' # nLim /\ req'.kind = "LIMIT"
                /\ <<req'.ip, req'.path>> \in DOMAIN store)
            => LET key == <<req'.ip, req'.path>>
                   left == store[key].resetTime - now
               IN  /\ (left >= 0 /\ store[key].count >= StatedMax(key[2]))
                         => /\ resp'.status = 429
                            /\ resp'.body.retryAfter * 1000 >= left
                            /\ (resp'.body.retryAfter - 1) * 1000 < left
                            /\ store' = store
                            /\ admitted' = admitted
                   /\ (left >= 0 /\ store[key].count < StatedMax(key[2]))
                         => /\ resp'.by = "next"
                            /\ store'[key].count = store[key].count + 1
                            /\ store'[key].resetTime = store[key].resetTime
                   /\ left < 0
                         => /\ resp'.by = "next"
                            /\ store'[key] = [count |-> 1,
                                              resetTime |-> now + StatedWindowMs(key[2])] ]_vars

\* the sixth login of a window was answered 429 two milliseconds before the reset
C13_Witness ==
    /\ req.kind = "LIMIT"
    /\ resp.status = 429
    /\ resp.body.retryAfter = 1
    /\ store[<<req.ip, req.path>>].count = 5
    /\ store[<<req.ip, req.path>>].resetTime - now = 2

(***************************************************************************)
(* routes/calendarEvents                                                   *)
(***************************************************************************)
\* !!s for a date-time string
TruthyTime(o, k) == Has(o, k) /\ o[k].text # ""

\* new Date(a) >= new Date(b): false when either date is invalid (NaN)
DateGe(a, b) == a.text = "iso" /\ b.text = "iso" /\ a.ms >= b.ms

EventIndexOfId(id) == FindIndexById(mockEvents, id)

EventNotFound ==
    errorHandler(createError("Calendar event not found", 404, "EVENT_NOT_FOUND"), nodeEnv)

InvalidDateRange ==
    errorHandler(createError("End time must be after start time", 400,
                             "INVALID_DATE_RANGE"), nodeEnv)

\* POST /api/calendar-events
PostEvent(eventData, user) ==
    /\ nCal < MaxCal
    /\ nCal' = nCal + 1
    /\ req' = [kind |-> "POSTEVENT", body |-> eventData, at |-> now]
    /\ IF \/ ~TruthyStr(eventData, "title")
          \/ ~TruthyTime(eventData, "start_time")
          \/ ~TruthyTime(eventData, "end_time")
       THEN /\ resp' = errorHandler(createError(
                           "Title, start time, and end time are required", 400,
                           "MISSING_REQUIRED_FIELDS"), nodeEnv)
            /\ mockEvents' = mockEvents
       ELSE IF DateGe(eventData.start_time, eventData.end_time)
       THEN /\ resp' = InvalidDateRange
            /\ mockEvents' = mockEvents
       ELSE LET newEvent == Spread(eventData,
                               [id |-> now, created_date |-> now, updated_date |-> now,
                                user_id |-> UserIdOf(user)])
            IN  /\ mockEvents' = Append(mockEvents, newEvent)
                /\ resp' = Reply(201, [success |-> TRUE, data |-> newEvent,
                                       message |-> "Calendar event created successfully"])
    /\ UNCHANGED <<now, nodeEnv, beyondCalendar>>

\* PUT /api/calendar-events/:id
PutEvent(id, updates) ==
    /\ nCal < MaxCal
    /\ nCal' = nCal + 1
    /\ req' = [kind |-> "PUTEVENT", id |-> id, body |-> updates, at |-> now]
    /\ IF EventIndexOfId(id) = 0
       THEN resp' = EventNotFound /\ mockEvents' = mockEvents
       ELSE LET eventIndex == EventIndexOfId(id)
                startTime == IF TruthyTime(updates, "start_time") THEN updates.start_time
                             ELSE mockEvents[eventIndex].start_time
                endTime == IF TruthyTime(updates, "end_time") THEN updates.end_time
                           ELSE mockEvents[eventIndex].end_time
                merged == Spread(Spread(mockEvents[eventIndex], updates),
                                 [updated_date |-> now])
            IN  IF /\ TruthyTime(updates, "start_time") \/ TruthyTime(updates, "end_time")
                   /\ DateGe(startTime, endTime)
                THEN resp' = InvalidDateRange /\ mockEvents' = mockEvents
                ELSE /\ mockEvents' = [mockEvents EXCEPT ![eventIndex] = merged]
                     /\ resp' = Reply(200, [success |-> TRUE, data |-> merged,
                                   message |-> "Calendar event updated successfully"])
    /\ UNCHANGED <<now, nodeEnv, beyondCalendar>>

\* DELETE /api/calendar-events/:id
DeleteEvent(id) ==
    /\ nCal < MaxCal
    /\ nCal' = nCal + 1
    /\ req' = [kind |-> "DELEVENT", id |-> id, at |-> now]
    /\ IF EventIndexOfId(id) = 0
       THEN resp' = EventNotFound /\ mockEvents' = mockEvents
       ELSE /\ mockEvents' = RemoveAt(mockEvents, EventIndexOfId(id))
            /\ resp' = Reply(200, [success |-> TRUE,
                                   message |-> "Calendar event deleted successfully"])
    /\ UNCHANGED <<now, nodeEnv, beyondCalendar>>

\* PUT /api/calendar-events/:id/reschedule
RescheduleEvent(id, body) ==
    /\ nCal < MaxCal
    /\ nCal' = nCal + 1
    /\ req' = [kind |-> "RESCHEDULE", id |-> id, body |-> body, at |-> now]
    /\ IF ~TruthyTime(body, "start_time") \/ ~TruthyTime(body, "end_time")
       THEN /\ resp' = errorHandler(createError("Start time and end time are required",
                                                400, "MISSING_TIMES"), nodeEnv)
            /\ mockEvents' = mockEvents
       ELSE IF EventIndexOfId(id) = 0
       THEN resp' = EventNotFound /\ mockEvents' = mockEvents
       ELSE IF DateGe(body.start_time, body.end_time)
       THEN resp' = InvalidDateRange /\ mockEvents' = mockEvents
       ELSE LET eventIndex == EventIndexOfId(id)
                merged == Spread(mockEvents[eventIndex],
                                 [start_time |-> body.start_time,
                                  end_time |-> body.end_time,
                                  status |-> "rescheduled", updated_date |-> now])
            IN  /\ mockEvents' = [mockEvents EXCEPT ![eventIndex] = merged]
                /\ resp' = Reply(200, [success |-> TRUE, data |-> merged,
                                       message |-> "Event rescheduled successfully"])
    /\ UNCHANGED <<now, nodeEnv, beyondCalendar>>

CalTick ==
    /\ nCal < MaxCal
    /\ nCal' = nCal + 1
    /\ now' = now + 1
    /\ req' = [kind |-> "ELAPSE"]
    /\ UNCHANGED <<nodeEnv, resp, mockEvents, beyondCalendar>>

PostEventBodies ==
    { [title |-> "Deposition", start_time |-> Iso(700), end_time |-> Iso(800)],
      [title |-> "Deposition", start_time |-> Iso(800), end_time |-> Iso(700)],
      [title |-> "Deposition", start_time |-> Iso(700), end_time |-> Iso(700)],
      [title |-> "Deposition", start_time |-> Iso(700)],
      [title |-> "Deposition", start_time |-> EmptyTime, end_time |-> Iso(800)],
      [start_time |-> Iso(700), end_time |-> Iso(800)] }

TimeBodies ==
    { [start_time |-> Iso(250), end_time |-> Iso(550)],
      [start_time |-> Iso(550), end_time |-> Iso(250)],
      [start_time |-> Iso(250)],
      [start_time |-> Iso(900)],
      [end_time |-> Iso(100)],
      [end_time |-> EmptyTime],
      [start_time |-> EmptyTime, end_time |-> Iso(550)],
      [start_time |-> GarbageTime, end_time |-> Iso(550)] }

PutEventBodies == TimeBodies \cup {[title |-> "Moved", user_id |-> 9]}

EventIds == {1, 2, 0}

InitCalendar ==
    /\ InitCases

NextCalendar ==
    \/ \E b \in PostEventBodies : PostEvent(b, [id |-> 7])
    \/ \E id \in EventIds, b \in PutEventBodies : PutEvent(id, b)
    \/ \E id \in EventIds : DeleteEvent(id)
    \/ \E id \in EventIds, b \in TimeBodies : RescheduleEvent(id, b)
    \/ CalTick

SpecCalendar == InitCalendar /\ [][NextCalendar]_vars

\* C17: every stored event has a start_time strictly before its end_time, after
\* any POST, PUT and reschedule, also when a body sets only one of the two or
\* sets one to an empty value.
C17_StartBeforeEnd ==
    \A i \in 1..Len(mockEvents) :
        /\ Has(mockEvents[i], "start_time") /\ Has(mockEvents[i], "end_time")
        /\ mockEvents[i].start_time.text = "iso"
        /\ mockEvents[i].end_time.text = "iso"
        /\ mockEvents[i].start_time.ms < mockEvents[i].end_time.ms

(***************************************************************************)
(* frontend utils/api: apiClient and its interceptors, in the browser.     *)
(* A stored string is the token it spells; a string that is no JWT is a    *)
(* token that is not well formed, with its text.  The browser's requests   *)
(* stay within the rate limiter's budget.                                  *)
(***************************************************************************)
MaxClient == 4

\* the JavaScript value undefined
Undefined == [undefined |-> TRUE]

\* o.k of a destructuring: undefined when the object has no such property
Prop(o, k) == IF Has(o, k) THEN o[k] ELSE Undefined

\* String(v), as setItem and a template literal apply it
ToStr(v) == IF v = Undefined THEN [wellFormed |-> FALSE, text |-> "undefined"] ELSE v

\* localStorage.setItem(k, v)
setItem(storage, k, v) == Spread(storage, (k :> ToStr(v)))

\* localStorage.removeItem(k)
removeItem(storage, k) == [j \in (DOMAIN storage) \ {k} |-> storage[j]]

\* `Bearer ${token}`
Bearer(token) == [scheme |-> "Bearer", token |-> ToStr(token)]

\* apiClient.interceptors.request: the config sent
requestInterceptor(config, storage) ==
    IF Has(storage, "auth_token")
    THEN [config EXCEPT !.authorization = Bearer(storage.auth_token)]
    ELSE config

\* auth.clearAuth() and the catch branch of the response interceptor
clearAuth(storage) ==
    removeItem(removeItem(removeItem(storage, "auth_token"), "refresh_token"),
               "user_profile")

\* auth.setToken(token, refreshToken)
setToken(storage, token, refreshToken) ==
    IF refreshToken # Undefined
    THEN setItem(setItem(storage, "auth_token", token), "refresh_token", refreshToken)
    ELSE setItem(storage, "auth_token", token)

\* the access token a refresh response was issued with
AccessIssued(refresh) == (CHOOSE i \in refresh.tokens : i.kind = "access").token

\* the retry of the response interceptor: apiClient(originalRequest), through the
\* request interceptor again
retryRequest(sent, first, refresh, stored, originalRequest) ==
    [storage |-> stored, location |-> location,
     tokens |-> first.tokens \cup refresh.tokens
                    \cup Routed(requestInterceptor(originalRequest, stored)).tokens,
     resp |-> Routed(requestInterceptor(originalRequest, stored)).resp,
     did |-> [kind |-> "refreshed", config |-> sent,
              accessIssued |-> AccessIssued(refresh),
              retry |-> requestInterceptor(originalRequest, stored)]]

\* the try block once axios.post(.../api/auth/refresh) has answered
onRefreshed(sent, first, refresh, access_token) ==
    retryRequest(sent, first, refresh,
                 setItem(localStorage, "auth_token", access_token),
                 [sent EXCEPT !.authorization = Bearer(access_token)])

\* the try and catch of the 401 branch; axios throws on a status outside 2xx
refreshAndRetry(sent, first, refresh) ==
    IF refresh.resp.status # 200
    THEN [storage |-> clearAuth(localStorage), location |-> "/login",
          tokens |-> first.tokens, resp |-> refresh.resp,
          did |-> [kind |-> "relogin", config |-> sent,
                   message |-> "Authentication required"]]
    ELSE onRefreshed(sent, first, refresh, Prop(refresh.resp.body, "access_token"))

\* apiClient.interceptors.response for the first answer of a request; a fresh
\* config has no _retry
responseInterceptor(sent, first) ==
    IF first.resp.status # 401
    THEN [storage |-> localStorage, location |-> location, tokens |-> first.tokens,
          resp |-> first.resp,
          did |-> [kind |-> "answered", config |-> sent]]
    ELSE IF ~Has(localStorage, "refresh_token")
    THEN [storage |-> localStorage, location |-> location, tokens |-> first.tokens,
          resp |-> first.resp,
          did |-> [kind |-> "thrown", config |-> sent,
                   message |-> "Authentication required"]]
    ELSE refreshAndRetry(sent, first,
                         RefreshOutcome([refresh_token |-> localStorage.refresh_token]))

\* the config as the request interceptor sends it, and the server's answer
sendRequest(sent) == responseInterceptor(sent, Routed(sent))

\* one call apiClient(config) with both interceptors: the storage and location left,
\* the tokens the server issued, the last response and what the interceptor did
apiClientCall(config) == sendRequest(requestInterceptor(config, localStorage))

\* a page calls apiClient.get('/api/cases')
ApiGetCases ==
    \E out \in {apiClientCall([method |-> "GET", path |-> <<"/api", "/cases">>,
                               authorization |-> <<>>, query |-> <<>>])} :
        /\ nClient < MaxClient
        /\ nClient' = nClient + 1
        /\ req' = [kind |-> "CLIENT", request |-> out.did.config, at |-> now]
        /\ resp' = out.resp
        /\ issued' = issued \cup out.tokens
        /\ localStorage' = out.storage
        /\ location' = out.location
        /\ call' = out.did
        /\ UNCHANGED <<now, beyondClient>>

\* app/login/page: onSubmit with the credentials typed
LoginSubmit(body) ==
    \E out \in {apiClientCall([method |-> "POST", path |-> <<"/api", "/auth", "/login">>,
                               authorization |-> <<>>, body |-> body])} :
        /\ nClient < MaxClient
        /\ nClient' = nClient + 1
        /\ req' = [kind |-> "CLIENT", request |-> out.did.config, at |-> now]
        /\ resp' = out.resp
        /\ issued' = issued \cup out.tokens
        /\ call' = out.did
        /\ IF out.resp.status = 200
           THEN /\ localStorage' =
                       setItem(setToken(out.storage,
                                        Prop(out.resp.body.data, "access_token"),
                                        Prop(out.resp.body.data, "refresh_token")),
                               "user_profile", [json |-> out.resp.body.data.user])
                /\ location' = "/dashboard"
           ELSE /\ localStorage' = out.storage
                /\ location' = out.location
        /\ UNCHANGED <<now, beyondClient>>

\* a request that gets no response: error.response is undefined, the interceptor
\* throws 'Network error' and touches nothing
networkError(config) ==
    [storage |-> localStorage, location |-> location, tokens |-> {}, resp |-> resp,
     did |-> [kind |-> "thrown", config |-> requestInterceptor(config, localStorage),
              message |-> "Network error. Please check your connection."]]

\* axios resolves the call: an answer with a 2xx status
Resolved(out) == out.did.kind # "thrown" /\ out.resp.status \in 200..299

\* entities/User: User.logout(), with the server reachable or not
UserLogout(reachable) ==
    \E out \in {IF reachable
                THEN apiClientCall([method |-> "POST",
                                    path |-> <<"/api", "/auth", "/logout">>,
                                    authorization |-> <<>>])
                ELSE networkError([method |-> "POST",
                                   path |-> <<"/api", "/auth", "/logout">>,
                                   authorization |-> <<>>])} :
        /\ nClient < MaxClient
        /\ nClient' = nClient + 1
        /\ req' = [kind |-> "CLIENT", request |-> out.did.config, at |-> now]
        /\ resp' = out.resp
        /\ issued' = issued \cup out.tokens
        /\ location' = out.location
        /\ call' = [kind |-> "logout", threw |-> ~Resolved(out), before |-> localStorage]
        /\ localStorage' =
               IF Resolved(out)
               THEN removeItem(removeItem(out.storage, "auth_token"), "user_profile")
               ELSE out.storage
        /\ UNCHANGED <<now, beyondClient>>

\* time passes in the browser: a second, the life of an access token, of a refresh token
ClientJumps == {1000, AccessTtlSec * 1000, RefreshTtlSec * 1000}

\* the browser session is followed for two lives of a refresh token
ClientHorizonMs == StartMs + 2 * RefreshTtlSec * 1000

ClientElapse(ms) ==
    /\ nClient < MaxClient
    /\ now + ms <= ClientHorizonMs
    /\ nClient' = nClient + 1
    /\ now' = now + ms
    /\ UNCHANGED <<req, resp, issued, localStorage, location, call, beyondClient>>

ClientLoginBodies ==
    { [email |-> DemoEmail, password |-> DemoPassword],
      [email |-> DemoEmail, password |-> <<"d", "e", "m", "o">>] }

InitClient ==
    /\ InitCases

NextClient ==
    \/ ApiGetCases
    \/ \E b \in ClientLoginBodies : LoginSubmit(b)
    \/ \E reachable \in BOOLEAN : UserLogout(reachable)
    \/ \E ms \in ClientJumps : ClientElapse(ms)

SpecClient == InitClient /\ [][NextClient]_vars

\* C20: when a request through apiClient is answered with 401, a refresh_token is
\* stored and POST /api/auth/refresh succeeds, the interceptor stores the access
\* token the server issued under auth_token and retries the original request with
\* exactly that token in its Authorization header.
C20_RefreshedTokenUsed ==
    call.kind = "refreshed" =>
        /\ Has(localStorage, "auth_token")
        /\ localStorage.auth_token = call.accessIssued
        /\ call.retry.authorization = [scheme |-> "Bearer", token |-> call.accessIssued]

\* the credentials local storage can hold
Credentials == {"auth_token", "refresh_token", "user_profile"}

\* C21: after User.logout() returns or throws, local storage holds none of
\* auth_token, refresh_token and user_profile, whether the logout call succeeded
\* or failed.
C21_LogoutClearsCredentials ==
    call.kind = "logout" => (DOMAIN localStorage) \cap Credentials = {}

(***************************************************************************)
(* routes/users.  A key is the sequence of its characters.                 *)
(***************************************************************************)
MaxUsers == 2
MaxKeyLen == 5

\* s.slice(-n)
SliceLast(s, n) == SubSeq(s, IF Len(s) > n THEN Len(s) - n + 1 ELSE 1, Len(s))

\* key ? '***' + key.slice(-4) : ''; an absent key is undefined, which is falsy
Sanitize(keys, k) ==
    IF Has(keys, k) /\ keys[k] # <<>>
    THEN <<"*", "*", "*">> \o SliceLast(keys[k], 4)
    ELSE <<>>

Providers == {"openai", "anthropic", "vonage", "elevenlabs"}

sanitizedApiKeys(api_keys) == [k \in Providers |-> Sanitize(api_keys, k)]

\* mockUsers.findIndex(u => u.id === userId), 0 for -1
ProfileIndexOfId(id) ==
    IF \E i \in 1..Len(mockUserProfiles) : mockUserProfiles[i].id = id
    THEN CHOOSE i \in 1..Len(mockUserProfiles) :
             /\ mockUserProfiles[i].id = id
             /\ \A j \in 1..(i - 1) : mockUserProfiles[j].id # id
    ELSE 0

\* const { api_keys, ...userProfile } = user; { ...userProfile, api_keys: sanitized }
SanitizedProfile(user) == Spread(user, [api_keys |-> sanitizedApiKeys(user.api_keys)])

\* the guards every route of the router starts with; user is req.user
UsersGuard(user) ==
    IF ~Has(user, "id")
    THEN errorHandler(createError("User not authenticated", 401, "NOT_AUTHENTICATED"),
                      nodeEnv)
    ELSE IF ProfileIndexOfId(user.id) = 0
    THEN errorHandler(createError("User not found", 404, "USER_NOT_FOUND"), nodeEnv)
    ELSE NoResponse

\* GET /api/users/me
GetMe(user) ==
    /\ nUsers < MaxUsers
    /\ nUsers' = nUsers + 1
    /\ req' = [kind |-> "GET_ME", user |-> user]
    /\ resp' = IF UsersGuard(user) # NoResponse THEN UsersGuard(user)
               ELSE Reply(200, [success |-> TRUE,
                                data |-> SanitizedProfile(
                                    mockUserProfiles[ProfileIndexOfId(user.id)])])
    /\ UNCHANGED <<now, nodeEnv, mockUserProfiles, beyondUsers>>

\* mockUsers.some(u => u.email === updates.email && u.id !== userId)
emailExists(updates, userId) ==
    \E i \in 1..Len(mockUserProfiles) :
        mockUserProfiles[i].email = updates.email /\ mockUserProfiles[i].id # userId

\* PUT /api/users/me
PutMe(user, updates) ==
    /\ nUsers < MaxUsers
    /\ nUsers' = nUsers + 1
    /\ req' = [kind |-> "PUT_ME", user |-> user, body |-> updates]
    /\ IF UsersGuard(user) # NoResponse
       THEN resp' = UsersGuard(user) /\ UNCHANGED mockUserProfiles
       ELSE LET i == ProfileIndexOfId(user.id)
                updated == Spread(Spread(mockUserProfiles[i], updates),
                                  [updated_date |-> now])
            IN  IF /\ TruthyText(updates, "email")
                   /\ updates.email # mockUserProfiles[i].email
                   /\ emailExists(updates, user.id)
                THEN /\ resp' = errorHandler(createError("Email already in use", 409,
                                                         "EMAIL_EXISTS"), nodeEnv)
                     /\ UNCHANGED mockUserProfiles
                ELSE /\ mockUserProfiles' = [mockUserProfiles EXCEPT ![i] = updated]
                     /\ resp' = Reply(200, [success |-> TRUE,
                                            data |-> SanitizedProfile(updated),
                                            message |-> "Profile updated successfully"])
    /\ UNCHANGED <<now, nodeEnv, beyondUsers>>

\* PUT /api/users/me/api-keys
PutApiKeys(user, body) ==
    /\ nUsers < MaxUsers
    /\ nUsers' = nUsers + 1
    /\ req' = [kind |-> "PUT_API_KEYS", user |-> user, body |-> body]
    /\ IF UsersGuard(user) # NoResponse
       THEN resp' = UsersGuard(user) /\ UNCHANGED mockUserProfiles
       ELSE LET i == ProfileIndexOfId(user.id)
            IN  /\ mockUserProfiles' =
                       [mockUserProfiles EXCEPT
                           ![i] = Spread(@, [api_keys |->
                                                 Spread(@.api_keys,
                                                        IF Has(body, "api_keys")
                                                        THEN body.api_keys ELSE <<>>),
                                             updated_date |-> now])]
                /\ resp' = Reply(200, [success |-> TRUE,
                                       message |-> "API keys updated successfully"])
    /\ UNCHANGED <<now, nodeEnv, beyondUsers>>

\* the keys a user may store: every text of up to MaxKeyLen characters
KeyChars == {"k", "7"}

KeyTexts == UNION {[1..n -> KeyChars] : n \in 0..MaxKeyLen}

ApiKeyBodies ==
    {[api_keys |-> [openai |-> t]] : t \in KeyTexts}
        \cup {[api_keys |-> [vonage |-> t]] : t \in {<<>>, <<"7", "7", "7", "7", "7">>}}
        \cup {<<>>}

PutMeBodies ==
    { [full_name |-> "Demo Attorney"],
      [email |-> <<"x", "@", "c", ".", "a">>],
      [api_keys |-> [openai |-> <<"k", "7">>, anthropic |-> <<"k", "7", "k", "7", "k">>]],
      [api_keys |-> [elevenlabs |-> <<"k", "k", "k", "k">>]] }

\* req.user as authMiddleware sets it: the demo user, another user, no id
UsersOfRequests == {[id |-> 1], [id |-> 7], <<>>}

InitUsers ==
    /\ InitCases

NextUsers ==
    \/ \E u \in UsersOfRequests : GetMe(u)
    \/ \E u \in UsersOfRequests, b \in PutMeBodies : PutMe(u, b)
    \/ \E u \in UsersOfRequests, b \in ApiKeyBodies : PutApiKeys(u, b)

SpecUsers == InitUsers /\ [][NextUsers]_vars

\* the characters of a returned key value after its mask
Disclosed(shown) == SubSeq(shown, 4, Len(shown))

\* C22: the profile returned by GET and by PUT /api/users/me contains no stored API
\* key in full: for a non-empty stored key the returned value is '***' and the
\* key's last four characters, and discloses strictly fewer characters than the key
\* has; an empty key is returned as the empty string.
C22_KeysMasked ==
    (req.kind \in {"GET_ME", "PUT_ME"} /\ resp.status = 200) =>
        \A k \in Providers :
            LET stored == mockUserProfiles[ProfileIndexOfId(req.user.id)].api_keys
                shown == resp.body.data.api_keys[k]
            IN  IF ~Has(stored, k) \/ stored[k] = <<>>
                THEN shown = <<>>
                ELSE /\ SubSeq(shown, 1, 3) = <<"*", "*", "*">>
                     /\ Len(Disclosed(shown)) < Len(stored[k])
                     /\ Len(stored[k]) >= 4 => Len(Disclosed(shown)) = 4
                     /\ Disclosed(shown) =
                            SubSeq(stored[k], Len(stored[k]) - Len(Disclosed(shown)) + 1,
                                   Len(stored[k]))

(***************************************************************************)
(* routes/callLogs.  started_at and ended_at are date-time strings; a      *)
(* duration is a number, NaN included.                                     *)
(***************************************************************************)
MaxCalls == 4
RingDelayMs == 1000

CallIndexOfId(id) == FindIndexById(mockCallLogs, id)

CallLogNotFound ==
    errorHandler(createError("Call log not found", 404, "CALL_LOG_NOT_FOUND"), nodeEnv)

\* POST /api/call-logs/initiate
InitiateCall(body, user) ==
    /\ nCalls < MaxCalls
    /\ nCalls' = nCalls + 1
    /\ req' = [kind |-> "INITIATE", body |-> body, at |-> now]
    /\ IF ~TruthyStr(body, "to_number")
       THEN /\ resp' = errorHandler(createError("To number is required", 400,
                                                "MISSING_TO_NUMBER"), nodeEnv)
            /\ UNCHANGED <<mockCallLogs, callTimers>>
       ELSE LET newCall ==
                    Spread(IF Has(body, "case_id") THEN [case_id |-> body.case_id]
                           ELSE <<>>,
                           [id |-> now, to_number |-> body.to_number,
                            from_number |-> "+15559876543", started_at |-> Iso(now),
                            call_status |-> "initiated",
                            call_purpose |-> IF Has(body, "call_purpose")
                                             THEN body.call_purpose ELSE "other",
                            notes |-> "", created_date |-> now, updated_date |-> now,
                            user_id |-> IF Has(user, "id") THEN user.id ELSE 1])
            IN  /\ mockCallLogs' = Append(mockCallLogs, newCall)
                /\ callTimers' = Append(callTimers,
                                        [due |-> now + RingDelayMs, id |-> newCall.id])
                /\ resp' = Reply(201, [success |-> TRUE,
                                       data |-> [call_id |-> newCall.id,
                                                 status |-> "initiated"],
                                       message |-> "Call initiated successfully"])
    /\ UNCHANGED <<now, nodeEnv, beyondCalls>>

\* Math.floor((endTime.getTime() - startTime.getTime()) / 1000)
DurationSince(started_at) ==
    IF started_at.text = "iso"
    THEN [nan |-> FALSE, val |-> (now - started_at.ms) \div 1000]
    ELSE [nan |-> TRUE, val |-> 0]

\* the record /end stores for a call that has not ended
Ended(callLog) ==
    Spread(callLog, [ended_at |-> Iso(now), duration |-> DurationSince(callLog.started_at),
                     call_status |-> "completed", updated_date |-> now])

\* a plausible slip: /end without the test of ended_at
EndCallRecomputing(id) ==
    /\ nCalls < MaxCalls
    /\ nCalls' = nCalls + 1
    /\ req' = [kind |-> "END", id |-> id, at |-> now,
               again |-> CallIndexOfId(id) # 0
                             /\ TruthyTime(mockCallLogs[CallIndexOfId(id)], "ended_at")]
    /\ IF CallIndexOfId(id) = 0
       THEN resp' = CallLogNotFound /\ UNCHANGED mockCallLogs
       ELSE LET i == CallIndexOfId(id)
                stored == Ended(mockCallLogs[i])
            IN  /\ mockCallLogs' = [mockCallLogs EXCEPT ![i] = stored]
                /\ resp' = Reply(200, [success |-> TRUE, data |-> stored,
                                       message |-> "Call ended successfully"])
    /\ UNCHANGED <<now, nodeEnv, callTimers, beyondCalls>>

\* POST /api/call-logs/:id/end
EndCall(id) ==
    /\ nCalls < MaxCalls
    /\ nCalls' = nCalls + 1
    /\ req' = [kind |-> "END", id |-> id, at |-> now,
               again |-> CallIndexOfId(id) # 0
                             /\ TruthyTime(mockCallLogs[CallIndexOfId(id)], "ended_at")]
    /\ IF CallIndexOfId(id) = 0
       THEN resp' = CallLogNotFound /\ UNCHANGED mockCallLogs
       ELSE LET i == CallIndexOfId(id)
                stored == IF ~TruthyTime(mockCallLogs[i], "ended_at")
                          THEN Ended(mockCallLogs[i])
                          ELSE mockCallLogs[i]
            IN  /\ mockCallLogs' = [mockCallLogs EXCEPT ![i] = stored]
                /\ resp' = Reply(200, [success |-> TRUE, data |-> stored,
                                       message |-> "Call ended successfully"])
    /\ UNCHANGED <<now, nodeEnv, callTimers, beyondCalls>>

\* PUT /api/call-logs/:id
PutCallLog(id, updates) ==
    /\ nCalls < MaxCalls
    /\ nCalls' = nCalls + 1
    /\ req' = [kind |-> "PUT_CALL", id |-> id, body |-> updates, at |-> now]
    /\ IF CallIndexOfId(id) = 0
       THEN resp' = CallLogNotFound /\ UNCHANGED mockCallLogs
       ELSE LET i == CallIndexOfId(id)
                updated == Spread(Spread(mockCallLogs[i], updates), [updated_date |-> now])
            IN  /\ mockCallLogs' = [mockCallLogs EXCEPT ![i] = updated]
                /\ resp' = Reply(200, [success |-> TRUE, data |-> updated,
                                       message |-> "Call log updated successfully"])
    /\ UNCHANGED <<now, nodeEnv, callTimers, beyondCalls>>

\* DELETE /api/call-logs/:id
DeleteCallLog(id) ==
    /\ nCalls < MaxCalls
    /\ nCalls' = nCalls + 1
    /\ req' = [kind |-> "DELETE_CALL", id |-> id, at |-> now]
    /\ IF CallIndexOfId(id) = 0
       THEN resp' = CallLogNotFound /\ UNCHANGED mockCallLogs
       ELSE /\ mockCallLogs' = RemoveAt(mockCallLogs, CallIndexOfId(id))
            /\ resp' = Reply(200, [success |-> TRUE,
                                   message |-> "Call log deleted successfully"])
    /\ UNCHANGED <<now, nodeEnv, callTimers, beyondCalls>>

\* the callback of the setTimeout of /initiate; the timers have one delay, so the
\* first created is the first due
RingTimer ==
    /\ callTimers # <<>>
    /\ now >= Head(callTimers).due
    /\ callTimers' = Tail(callTimers)
    /\ req' = [kind |-> "CALL_TIMER", id |-> Head(callTimers).id, at |-> now]
    /\ LET callIndex == CallIndexOfId(Head(callTimers).id)
       IN  IF callIndex # 0
           THEN mockCallLogs' = [mockCallLogs EXCEPT
                                    ![callIndex] = Spread(@, [call_status |-> "ringing",
                                                              updated_date |-> now])]
           ELSE UNCHANGED mockCallLogs
    /\ UNCHANGED <<now, nodeEnv, resp, nCalls, beyondCalls>>

\* time passes until the next timer is due
AdvanceToRing ==
    /\ callTimers # <<>>
    /\ now < Head(callTimers).due
    /\ now' = Head(callTimers).due
    /\ UNCHANGED <<nodeEnv, req, resp, callVars, beyondCalls>>

\* a millisecond passes, no later than the next pending timer
CallTick ==
    /\ nCalls < MaxCalls
    /\ nCalls' = nCalls + 1
    /\ callTimers # <<>> => now + 1 <= Head(callTimers).due
    /\ now' = now + 1
    /\ UNCHANGED <<nodeEnv, req, resp, mockCallLogs, callTimers, beyondCalls>>

InitiateBodies == {[to_number |-> "+15550001111", case_id |-> 1], [to_number |-> ""]}

CallPutBodies ==
    { [call_status |-> "answered"], [ended_at |-> EmptyTime],
      [started_at |-> GarbageTime] }

\* the ids of the stored calls, and one of no call
CallIds == {mockCallLogs[i].id : i \in 1..Len(mockCallLogs)} \cup {0}

InitCalls ==
    /\ InitCases

NextCalls ==
    \/ \E b \in InitiateBodies : InitiateCall(b, [id |-> 1])
    \/ \E id \in CallIds : EndCall(id)
    \/ \E id \in CallIds, b \in CallPutBodies : PutCallLog(id, b)
    \/ \E id \in CallIds : DeleteCallLog(id)
    \/ RingTimer
    \/ AdvanceToRing
    \/ CallTick

SpecCalls == InitCalls /\ [][NextCalls]_vars

\* the call was ended: 'completed' with ended_at and duration
IsEnded(callLog) ==
    /\ callLog.call_status = "completed"
    /\ TruthyTime(callLog, "ended_at")
    /\ Has(callLog, "duration")

\* C23: once /end has set a call to 'completed' with ended_at and duration, no timer
\* changes that call, also when /end arrives less than a second after /initiate.
C23_TimerLeavesEndedCalls ==
    [][ req'.kind = "CALL_TIMER" /\ callTimers' # callTimers =>
            \A i \in 1..Len(mockCallLogs) :
                IsEnded(mockCallLogs[i]) => mockCallLogs'[i] = mockCallLogs[i] ]_vars

C24_ProcessTimerOwnDocument ==
    [][ (req'.kind = "TIMER" /\ timers' # timers /\ req'.timer.kind = "process") =>
            /\ ~crashed'
            /\ \A i \in 1..Len(mockDocuments) :
                   DocAt(i).id # req'.timer.id =>
                       heap'[mockDocuments[i]] = heap[mockDocuments[i]] ]_vars

\* C26: the cleanup timer of the rate limiter is unobservable: under every
\* interleaving of cleanup runs with requests, each request gets the decision, the
\* X-RateLimit headers and the 429 body it would get had the cleanup never run.
\* Checked under SpecLimiter.
C26_CleanupUnobservable ==
    req.kind = "LIMIT" => resp = twin

\* a request was handled after the cleanup had deleted the record of its key
C26_Witness ==
    req.kind = "LIMIT" /\ req.swept /\ resp.by = "next"

====
